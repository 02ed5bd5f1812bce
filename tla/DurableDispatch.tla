--------------------------- MODULE DurableDispatch ---------------------------
(***************************************************************************)
(* The durable workflow engine of orchestration/durable_execution.py:      *)
(* several engine processes (DurableWorkflowEngine) share one SQLite store *)
(* (DurableStore).  Every SQL statement is one atomic step; between two    *)
(* statements of one process the other processes may take theirs.  Inside  *)
(* a process the coroutines share one event loop, so a coroutine gives way *)
(* to another of the same process only where it really suspends.           *)
(*                                                                         *)
(* Time is abstracted: the code only asks whether a lease lies before now, *)
(* so a lease is "live" until ExpireLease makes it "expired".              *)
(***************************************************************************)
EXTENDS Naturals

CONSTANTS
  Engine,          \* engine instances: one _instance_id per process start
  RecoveryEngines, \* those on which start_recovery_worker has been called
  Registered,      \* those on which the workflow type has been registered
  Workflow,        \* workflow ids
  Request,         \* dispatch request hashes
  Call,            \* API calls; each is made once
  Task,            \* asyncio tasks that run a workflow; each is created once
  Nil,             \* SQL NULL / Python None
  MaxStalls        \* bound: leases that expire while their owner is alive

ASSUME EngineAssumption == /\ RecoveryEngines \subseteq Engine
                           /\ Registered \subseteq Engine
ASSUME NilAssumption == Nil \notin Engine /\ Nil \notin Call
ASSUME StallsAssumption == MaxStalls \in Nat

VARIABLES
  engine,   \* [Engine -> EngineStatus]
  row,      \* the workflows table: [Workflow -> Row]
  history,  \* the history table: how many events of each type per workflow
  call,     \* the API calls start_workflow, cancel_workflow, resume_workflow
  worker,   \* recover_dispatches: the eligible workflows not yet visited
  task,     \* the tasks created by _dispatch_workflow
  stalls    \* how many leases of living owners have expired

vars == <<engine, row, history, call, worker, task, stalls>>

EngineStatus == {"off", "up", "closing", "dead"}

(* WAITING and COMPENSATING are members of WorkflowStatus that no statement
   of the engine ever writes; they are left out. *)
Pending == {"claimed", "dispatching"}
Ended   == {"completed", "failed", "compensated", "cancelled"}
Status  == {"absent", "running"} \cup Pending \cup Ended

Row == [status  : Status,
        request : Request \cup {Nil},
        owner   : Engine \cup {Nil},
        lease   : {"none", "live", "expired"},
        signals : SUBSET Call]

NoRow == [status |-> "absent", request |-> Nil, owner |-> Nil,
          lease |-> "none", signals |-> {}]

Event == {"claimed", "dispatching", "recovered", "started", "completed",
          "failed", "compensation_started", "compensation_completed",
          "resumed", "cancelled"}

(* The program counters of a call.  "true", "false" and "raised" are the
   results it returned, "dead" that its process died first. *)
StartSteps  == {"insert", "log_claimed", "reload", "dispatch", "handoff"}
CancelSteps == {"save_cancelled", "log_cancelled"}
ResumeSteps == {"save_resumed", "log_resumed"}
CallSteps   == StartSteps \cup CancelSteps \cup ResumeSteps
CallResults == {"true", "false", "raised", "dead"}

CallPc      == CallSteps \cup CallResults \cup {"new"}

CallState == [op   : {"start", "cancel", "resume"},
              pc   : CallPc,
              eng  : Engine \cup {Nil},
              wf   : Workflow \cup {Nil},
              request : Request \cup {Nil},
              snap : Row]

NewCall == [op |-> "start", pc |-> "new", eng |-> Nil, wf |-> Nil,
            request |-> Nil, snap |-> NoRow]

(* The program counters of a task.  In "scheduled", "body" and
   "compensating" it waits and its event loop is free for others. *)
TaskWaits == {"scheduled", "body", "compensating"}
TaskSteps == {"handoff", "begin", "log_completed", "log_failed",
              "log_compensation", "save_compensated"}
TaskEnds  == {"done", "aborted", "dead", "interrupted"}

TaskPc    == TaskWaits \cup TaskSteps \cup TaskEnds \cup {"none"}

TaskState == [pc   : TaskPc,
              eng  : Engine \cup {Nil},
              wf   : Workflow \cup {Nil},
              by   : Call \cup {Nil},
              snap : Row]

NoTask == [pc |-> "none", eng |-> Nil, wf |-> Nil, by |-> Nil,
           snap |-> NoRow]

(* The pcs of a task whose release_dispatch_claim has succeeded; a task
   that stopped after that without an end of its own is "interrupted". *)
Running  == {"begin", "body", "log_completed", "log_failed",
             "log_compensation", "compensating", "save_compensated"}
Released == Running \cup {"done", "interrupted"}

TypeOK ==
  /\ engine \in [Engine -> EngineStatus]
  /\ row \in [Workflow -> Row]
  /\ history \in [Workflow -> [Event -> Nat]]
  /\ call \in [Call -> CallState]
  /\ worker \in [Engine -> SUBSET Workflow]
  /\ task \in [Task -> TaskState]
  /\ stalls \in Nat

Init ==
  /\ engine = [e \in Engine |-> "off"]
  /\ row = [w \in Workflow |-> NoRow]
  /\ history = [w \in Workflow |-> [ev \in Event |-> 0]]
  /\ call = [c \in Call |-> NewCall]
  /\ worker = [e \in Engine |-> {}]
  /\ task = [t \in Task |-> NoTask]
  /\ stalls = 0

-----------------------------------------------------------------------------
(* The event loop and the store.                                           *)

(* The process is executing code: it accepts no other coroutine. *)
Busy(e) ==
  \/ \E c \in Call : call[c].eng = e /\ call[c].pc \in CallSteps
  \/ worker[e] # {}
  \/ \E t \in Task : task[t].eng = e /\ task[t].pc \in TaskSteps

Serving(e) == engine[e] \in {"up", "closing"}
Idle(e)    == Serving(e) /\ ~Busy(e)

(* append_history: one more event row, in a transaction of its own. *)
Append(w, ev) == history' = [history EXCEPT ![w][ev] = @ + 1]

(* Mutant: an INSERT that names too few columns. *)
ClaimedRowPartial(r) == [status |-> "claimed", request |-> r]

(* claim_workflow: the row a new claim inserts. *)
ClaimedRow(r) == [NoRow EXCEPT !.status = "claimed", !.request = r]

(* Mutants: a recovery that forgets expired handoffs, and one that also
   takes over workflows that are running. *)
ClaimableOnlyClaimed(w) == row[w].status = "claimed"
ClaimableRunning(w) ==
  \/ row[w].status \in {"claimed", "running"}
  \/ row[w].status = "dispatching" /\ row[w].lease = "expired"

(* The WHERE clause of try_claim_dispatch and of find_claimed_workflows. *)
Claimable(w) ==
  \/ row[w].status = "claimed"
  \/ row[w].status = "dispatching" /\ row[w].lease = "expired"

(* try_claim_dispatch and the task it entitles the engine to create.  A
   call waits for the handoff; the recovery worker has no call. *)
ClaimDispatch(e, w, t, caller) ==
  /\ Claimable(w)
  /\ task[t].pc = "none"
  /\ row' = [row EXCEPT ![w] = [@ EXCEPT !.status = "dispatching",
                                         !.owner = e,
                                         !.lease = "live"]]
  /\ task' = [task EXCEPT ![t] = [pc |-> "handoff", eng |-> e, wf |-> w,
                                  by |-> caller, snap |-> NoRow]]

-----------------------------------------------------------------------------
(* start_workflow                                                          *)

(* Mutant: the request hash is not compared. *)
AfterLoadAnyRequest(loaded, r) ==
  IF loaded.status = "claimed" THEN "dispatch" ELSE "true"

(* What start_workflow does with the row it has just loaded. *)
AfterLoad(loaded, r) ==
  IF loaded.request # r THEN "raised"
  ELSE IF loaded.status = "claimed" THEN "dispatch" ELSE "true"

(* The call arrives; its first statement looks for an existing claim. *)
StartWorkflow(c, e, w, r) ==
  /\ call[c].pc = "new"
  /\ Idle(e)
  /\ call' = [call EXCEPT ![c] =
       [op |-> "start", eng |-> e, wf |-> w, request |-> r, snap |-> NoRow,
        pc |-> IF e \notin Registered THEN "raised"
               ELSE IF row[w].status = "absent" THEN "insert"
               ELSE AfterLoad(row[w], r)]]
  /\ UNCHANGED <<engine, row, history, worker, task, stalls>>

(* INSERT OR IGNORE: the first claim wins, a later one must load again. *)
StartInsert(c) ==
  LET w == call[c].wf IN
  /\ call[c].pc = "insert"
  /\ \/ /\ row[w].status = "absent"
        /\ row' = [row EXCEPT ![w] = ClaimedRow(call[c].request)]
        /\ call' = [call EXCEPT ![c].pc = "log_claimed"]
     \/ /\ row[w].status # "absent"
        /\ call' = [call EXCEPT ![c].pc = "reload"]
        /\ UNCHANGED row
  /\ UNCHANGED <<engine, history, worker, task, stalls>>

StartReload(c) ==
  /\ call[c].pc = "reload"
  /\ call' = [call EXCEPT ![c].pc =
                AfterLoad(row[call[c].wf], call[c].request)]
  /\ UNCHANGED <<engine, row, history, worker, task, stalls>>

StartLogClaimed(c) ==
  /\ call[c].pc = "log_claimed"
  /\ Append(call[c].wf, "claimed")
  /\ call' = [call EXCEPT ![c].pc = "dispatch"]
  /\ UNCHANGED <<engine, row, worker, task, stalls>>

(* _dispatch_workflow(..., from_recovery=False).  Losing the claim is no
   error: the call returns the workflow id. *)
StartDispatch(c) ==
  LET w == call[c].wf IN
  /\ call[c].pc = "dispatch"
  /\ \/ /\ \E t \in Task : ClaimDispatch(call[c].eng, w, t, c)
        /\ call' = [call EXCEPT ![c].pc = "handoff"]
     \/ /\ ~Claimable(w)
        /\ call' = [call EXCEPT ![c].pc = "true"]
        /\ UNCHANGED <<row, task>>
  /\ UNCHANGED <<engine, history, worker, stalls>>

(* The rest of _dispatch_workflow: record the event, create the task. *)
Handoff(t) ==
  LET c == task[t].by IN
  /\ task[t].pc = "handoff"
  /\ Append(task[t].wf, IF c = Nil THEN "recovered" ELSE "dispatching")
  /\ task' = [task EXCEPT ![t].pc = "scheduled"]
  /\ call' = IF c = Nil THEN call ELSE [call EXCEPT ![c].pc = "true"]
  /\ UNCHANGED <<engine, row, worker, stalls>>

-----------------------------------------------------------------------------
(* The recovery worker                                                     *)

(* recover_dispatches: find_claimed_workflows.  The batch limit is larger
   than the workflows of any instance checked here. *)
RecoverFind(e) ==
  /\ e \in RecoveryEngines
  /\ engine[e] = "up"
  /\ ~Busy(e)
  /\ worker' = [worker EXCEPT ![e] = {w \in Workflow : Claimable(w)}]
  /\ UNCHANGED <<engine, row, history, call, task, stalls>>

(* One turn of the loop over the eligible rows: the claim may be lost to
   another engine in the meantime. *)
RecoverDispatch(e, w) ==
  /\ engine[e] = "up"
  /\ w \in worker[e]
  /\ \A t \in Task : ~(task[t].eng = e /\ task[t].pc = "handoff")
  /\ worker' = [worker EXCEPT ![e] = @ \ {w}]
  /\ \/ \E t \in Task : ClaimDispatch(e, w, t, Nil)
     \/ ~Claimable(w) /\ UNCHANGED <<row, task>>
  /\ UNCHANGED <<engine, history, call, stalls>>

-----------------------------------------------------------------------------
(* _run_workflow                                                           *)

(* Mutant: the row count of the compare-and-swap is ignored. *)
ReleaseUnchecked(t) ==
  /\ task[t].pc = "scheduled"
  /\ Idle(task[t].eng)
  /\ row' = [row EXCEPT ![task[t].wf] = [@ EXCEPT !.status = "running",
                                                  !.owner = Nil,
                                                  !.lease = "none"]]
  /\ task' = [task EXCEPT ![t].pc = "begin"]
  /\ UNCHANGED <<engine, history, call, worker, stalls>>

(* Mutant: the compare-and-swap asks for a lease that has not expired. *)
ReleaseInTime(t) ==
  LET w == task[t].wf
      mine == /\ row[w].status = "dispatching" /\ row[w].lease = "live"
              /\ row[w].owner = task[t].eng IN
  /\ task[t].pc = "scheduled"
  /\ Idle(task[t].eng)
  /\ row' = IF mine THEN [row EXCEPT ![w] = [@ EXCEPT !.status = "running",
                                                     !.owner = Nil,
                                                     !.lease = "none"]]
            ELSE row
  /\ task' = [task EXCEPT ![t].pc = IF mine THEN "begin" ELSE "aborted"]
  /\ UNCHANGED <<engine, history, call, worker, stalls>>

(* release_dispatch_claim: the compare-and-swap that decides whether this
   task may run the body. *)
Release(t) ==
  LET w == task[t].wf
      e == task[t].eng IN
  /\ task[t].pc = "scheduled"
  /\ Idle(e)
  /\ \/ /\ row[w].status = "dispatching"
        /\ row[w].owner = e
        /\ row' = [row EXCEPT ![w] = [@ EXCEPT !.status = "running",
                                               !.owner = Nil,
                                               !.lease = "none"]]
        /\ task' = [task EXCEPT ![t].pc = "begin"]
     \/ /\ ~(row[w].status = "dispatching" /\ row[w].owner = e)
        /\ task' = [task EXCEPT ![t].pc = "aborted"]
        /\ UNCHANGED row
  /\ UNCHANGED <<engine, history, call, worker, stalls>>

(* Mutant: the start is not recorded. *)
BeginUnrecorded(t) ==
  /\ task[t].pc = "begin"
  /\ task' = [task EXCEPT ![t] = [@ EXCEPT !.pc = "body",
                                           !.snap = row[task[t].wf]]]
  /\ UNCHANGED <<engine, row, history, call, worker, stalls>>

(* Record WORKFLOW_STARTED, look the handler up (a KeyError ends the task
   when this process never registered it), load the record that the end of
   the run will write back, and enter the body. *)
Begin(t) ==
  /\ task[t].pc = "begin"
  /\ Append(task[t].wf, "started")
  /\ task' = IF task[t].eng \in Registered
             THEN [task EXCEPT ![t] = [@ EXCEPT !.pc = "body",
                                                !.snap = row[task[t].wf]]]
             ELSE [task EXCEPT ![t].pc = "interrupted"]
  /\ UNCHANGED <<engine, row, call, worker, stalls>>

(* save_workflow of the record loaded before the body, with a new status:
   the whole row is replaced, whatever it has become meanwhile. *)
SaveSnapshot(t, status) ==
  row' = [row EXCEPT ![task[t].wf] = [task[t].snap EXCEPT !.status = status]]

(* A result that JSON cannot encode makes this save fail and the one in the
   except clause too: the task ends with the row still running. *)
BodyReturns(t) ==
  /\ task[t].pc = "body"
  /\ Idle(task[t].eng)
  /\ \/ /\ SaveSnapshot(t, "completed")
        /\ task' = [task EXCEPT ![t].pc = "log_completed"]
     \/ /\ task' = [task EXCEPT ![t].pc = "interrupted"]
        /\ UNCHANGED row
  /\ UNCHANGED <<engine, history, call, worker, stalls>>

LogCompleted(t) ==
  /\ task[t].pc = "log_completed"
  /\ Append(task[t].wf, "completed")
  /\ task' = [task EXCEPT ![t].pc = "done"]
  /\ UNCHANGED <<engine, row, call, worker, stalls>>

BodyRaises(t) ==
  /\ task[t].pc = "body"
  /\ Idle(task[t].eng)
  /\ SaveSnapshot(t, "failed")
  /\ task' = [task EXCEPT ![t].pc = "log_failed"]
  /\ UNCHANGED <<engine, history, call, worker, stalls>>

LogFailed(t) ==
  /\ task[t].pc = "log_failed"
  /\ Append(task[t].wf, "failed")
  /\ task' = [task EXCEPT ![t].pc = "log_compensation"]
  /\ UNCHANGED <<engine, row, call, worker, stalls>>

(* WorkflowContext.compensate: the rollback functions may suspend. *)
CompensationStarts(t) ==
  /\ task[t].pc = "log_compensation"
  /\ Append(task[t].wf, "compensation_started")
  /\ task' = [task EXCEPT ![t].pc = "compensating"]
  /\ UNCHANGED <<engine, row, call, worker, stalls>>

CompensationEnds(t) ==
  /\ task[t].pc = "compensating"
  /\ Idle(task[t].eng)
  /\ Append(task[t].wf, "compensation_completed")
  /\ task' = [task EXCEPT ![t].pc = "save_compensated"]
  /\ UNCHANGED <<engine, row, call, worker, stalls>>

SaveCompensated(t) ==
  /\ task[t].pc = "save_compensated"
  /\ SaveSnapshot(t, "compensated")
  /\ task' = [task EXCEPT ![t].pc = "done"]
  /\ UNCHANGED <<engine, history, call, worker, stalls>>

-----------------------------------------------------------------------------
(* cancel_workflow and resume_workflow: load, decide, save what was loaded *)

CancelWorkflow(c, e, w) ==
  /\ call[c].pc = "new"
  /\ Idle(e)
  /\ call' = [call EXCEPT ![c] =
       [op |-> "cancel", eng |-> e, wf |-> w, request |-> Nil,
        snap |-> row[w],
        pc |-> IF row[w].status \in Ended \cup {"absent"}
               THEN "false" ELSE "save_cancelled"]]
  /\ UNCHANGED <<engine, row, history, worker, task, stalls>>

(* Mutant: the owner and the lease of the loaded record are kept. *)
CancelSaveKeepsOwner(c) ==
  /\ call[c].pc = "save_cancelled"
  /\ row' = [row EXCEPT ![call[c].wf] =
               [call[c].snap EXCEPT !.status = "cancelled"]]
  /\ call' = [call EXCEPT ![c].pc = "log_cancelled"]
  /\ UNCHANGED <<engine, history, worker, task, stalls>>

CancelSave(c) ==
  /\ call[c].pc = "save_cancelled"
  /\ row' = [row EXCEPT ![call[c].wf] =
               [call[c].snap EXCEPT !.status = "cancelled",
                                    !.owner = Nil,
                                    !.lease = "none"]]
  /\ call' = [call EXCEPT ![c].pc = "log_cancelled"]
  /\ UNCHANGED <<engine, history, worker, task, stalls>>

CancelLog(c) ==
  /\ call[c].pc = "log_cancelled"
  /\ Append(call[c].wf, "cancelled")
  /\ call' = [call EXCEPT ![c].pc = "true"]
  /\ UNCHANGED <<engine, row, worker, task, stalls>>

ResumeWorkflow(c, e, w) ==
  /\ call[c].pc = "new"
  /\ Idle(e)
  /\ call' = [call EXCEPT ![c] =
       [op |-> "resume", eng |-> e, wf |-> w, request |-> Nil,
        snap |-> row[w],
        pc |-> IF row[w].status = "running" THEN "save_resumed"
               ELSE "false"]]
  /\ UNCHANGED <<engine, row, history, worker, task, stalls>>

ResumeSave(c) ==
  /\ call[c].pc = "save_resumed"
  /\ row' = [row EXCEPT ![call[c].wf] =
               [call[c].snap EXCEPT !.status = "running",
                                    !.signals = @ \cup {c}]]
  /\ call' = [call EXCEPT ![c].pc = "log_resumed"]
  /\ UNCHANGED <<engine, history, worker, task, stalls>>

ResumeLog(c) ==
  /\ call[c].pc = "log_resumed"
  /\ Append(call[c].wf, "resumed")
  /\ call' = [call EXCEPT ![c].pc = "true"]
  /\ UNCHANGED <<engine, row, worker, task, stalls>>

-----------------------------------------------------------------------------
(* Processes and leases                                                    *)

Boot(e) ==
  /\ engine[e] = "off"
  /\ engine' = [engine EXCEPT ![e] = "up"]
  /\ UNCHANGED <<row, history, call, worker, task, stalls>>

(* What is left of the coroutines of a process that stops. *)
KillCalls(e) ==
  [c \in Call |-> IF call[c].eng = e /\ call[c].pc \in CallSteps
                  THEN [call[c] EXCEPT !.pc = "dead"] ELSE call[c]]
KillTasks(e) ==
  [t \in Task |->
     IF task[t].eng = e /\ task[t].pc \in TaskWaits \cup TaskSteps
     THEN [task[t] EXCEPT !.pc = IF @ \in Running THEN "interrupted"
                                 ELSE "dead"]
     ELSE task[t]]

(* The process manager keeps or starts another process. *)
SurvivorOf(e) == \E f \in Engine \ {e} : engine[f] \in {"off", "up"}

Crash(e) ==
  /\ Serving(e)
  /\ SurvivorOf(e)
  /\ engine' = [engine EXCEPT ![e] = "dead"]
  /\ call' = KillCalls(e)
  /\ task' = KillTasks(e)
  /\ worker' = [worker EXCEPT ![e] = {}]
  /\ UNCHANGED <<row, history, stalls>>

(* shutdown: the recovery worker stops and the running tasks get a grace
   period, during which calls are still served. *)
Shutdown(e) ==
  /\ engine[e] = "up"
  /\ ~Busy(e)
  /\ SurvivorOf(e)
  /\ engine' = [engine EXCEPT ![e] = "closing"]
  /\ UNCHANGED <<row, history, call, worker, task, stalls>>

(* The grace period ends: tasks still waiting are cancelled where they
   wait.  CancelledError is not an Exception, so nothing is saved. *)
ShutdownEnds(e) ==
  /\ engine[e] = "closing"
  /\ ~Busy(e)
  /\ engine' = [engine EXCEPT ![e] = "dead"]
  /\ task' = KillTasks(e)
  /\ UNCHANGED <<row, history, call, worker, stalls>>

(* dispatch_lease_expires_at falls behind the clock. *)
ExpireLease(w) ==
  LET dead == engine[row[w].owner] = "dead" IN
  /\ row[w].status = "dispatching"
  /\ row[w].lease = "live"
  /\ dead \/ stalls < MaxStalls
  /\ stalls' = IF dead THEN stalls ELSE stalls + 1
  /\ row' = [row EXCEPT ![w].lease = "expired"]
  /\ UNCHANGED <<engine, history, call, worker, task>>

-----------------------------------------------------------------------------
StartNext(c) ==
  \/ StartInsert(c) \/ StartReload(c) \/ StartLogClaimed(c)
  \/ StartDispatch(c)
CancelNext(c) == CancelSave(c) \/ CancelLog(c)
ResumeNext(c) == ResumeSave(c) \/ ResumeLog(c)
CallNext(c) == StartNext(c) \/ CancelNext(c) \/ ResumeNext(c)

Arrive(c, e, w) ==
  \/ \E r \in Request : StartWorkflow(c, e, w, r)
  \/ CancelWorkflow(c, e, w)
  \/ ResumeWorkflow(c, e, w)

RecoverNext(e) == RecoverFind(e) \/ \E w \in Workflow : RecoverDispatch(e, w)

TaskNext(t) ==
  \/ Handoff(t) \/ Release(t) \/ Begin(t)
  \/ BodyReturns(t) \/ LogCompleted(t)
  \/ BodyRaises(t) \/ LogFailed(t)
  \/ CompensationStarts(t) \/ CompensationEnds(t) \/ SaveCompensated(t)

ProcessNext(e) == Boot(e) \/ Crash(e) \/ Shutdown(e) \/ ShutdownEnds(e)

Next ==
  \/ \E c \in Call, e \in Engine, w \in Workflow : Arrive(c, e, w)
  \/ \E c \in Call : CallNext(c)
  \/ \E e \in Engine : RecoverNext(e) \/ ProcessNext(e)
  \/ \E t \in Task : TaskNext(t)
  \/ \E w \in Workflow : ExpireLease(w)

Spec == Init /\ [][Next]_vars

(* A process that is up runs the coroutines it has begun, the recovery
   worker polls for ever, handlers end, a lease whose owner is gone falls
   behind the clock, and the process manager boots what is off.  Nothing
   makes a client call, a crash or a shutdown happen. *)
Fairness ==
  /\ \A c \in Call : WF_vars(CallNext(c))
  /\ \A t \in Task : WF_vars(TaskNext(t))
  /\ \A e \in Engine : /\ WF_vars(Boot(e))
                       /\ WF_vars(RecoverNext(e))
                       /\ WF_vars(ShutdownEnds(e))
  /\ \A w \in Workflow : WF_vars(ExpireLease(w))

FairSpec == Spec /\ Fairness

-----------------------------------------------------------------------------
(* Properties                                                              *)

Settled(w) == row[w].status \notin Pending \cup {"absent"}

(* The promise to the client, and how the engine's state keeps it. *)
Phase == [w \in Workflow |-> IF row[w].status = "absent" THEN "unknown"
                             ELSE IF Settled(w) THEN "decided"
                             ELSE "accepted"]
Granted == {w \in Workflow : \E t \in Task : task[t].wf = w
                                           /\ task[t].pc \in Released}
Entered == [w \in Workflow |-> history[w]["started"]]

Lifecycle == INSTANCE WorkflowLifecycle
               WITH phase <- Phase, granted <- Granted, runs <- Entered

(* The engine implements the promise: every step of every engine is a step
   of WorkflowLifecycle or invisible to the client. *)
KeepsPromise == Lifecycle!LifecycleSpec

(* The body of a workflow is entered at most once, whichever engines claim,
   stall, crash and recover: "exactly-once dispatch" of the engine's
   docstring, and the reason _run_workflow confirms its claim first. *)
StartsOnce ==
  /\ \A w \in Workflow : history[w]["started"] <= 1
  /\ \A t, u \in Task :
       /\ task[t].pc \in Released
       /\ task[u].pc \in Released
       /\ task[t].wf = task[u].wf
       => t = u

(* Only a row in dispatch has an owner and a lease: no save of a record
   loaded earlier (cancel, resume, the end of a run) brings one back. *)
LeaseCoherence ==
  \A w \in Workflow :
    /\ row[w].status = "dispatching" <=> row[w].owner # Nil
    /\ row[w].status = "dispatching" <=> row[w].lease # "none"

(* A workflow that has left the dispatch states never returns to them:
   cancel_workflow's "Prevents later recovery dispatch", in spite of the
   stale records that cancel, resume and the runs write back. *)
NoRedispatch == [][\A w \in Workflow : Settled(w) => Settled(w)']_vars

(* A cancelled workflow with nobody left who could write its row: no run
   that will save its record, no resume_workflow that has loaded it. *)
QuietlyCancelled(w) ==
  /\ row[w].status = "cancelled"
  /\ \A t \in Task : task[t].wf = w => task[t].pc \notin Running
  /\ \A c \in Call : call[c].wf = w => call[c].pc # "save_resumed"

(* What is left of "Allowed at any pre-terminal state" and "Prevents later
   recovery dispatch": a cancel is final, and the body is never entered,
   once no run and no resume that began before it is still under way.
   Tasks that were scheduled before the cancel give up. *)
QuietCancelHolds ==
  [][\A w \in Workflow : QuietlyCancelled(w) => QuietlyCancelled(w)']_vars

(* A dispatch lease stands for a task of its owner that will release it, or
   for an owner that has stopped: no other step, and no expiry of the
   lease, leaves a workflow that nobody is about to run. *)
InHand ==
  \A w \in Workflow :
    row[w].status = "dispatching" =>
      \/ engine[row[w].owner] = "dead"
      \/ \E t \in Task : /\ task[t].wf = w /\ task[t].eng = row[w].owner
                         /\ task[t].pc \in {"handoff", "scheduled"}

(* An outcome of the body is stored only for a workflow that was started. *)
OutcomeHasRun ==
  \A w \in Workflow :
    row[w].status \in {"completed", "failed", "compensated"} =>
      history[w]["started"] = 1

(* start_workflow is idempotent per request: a caller that got the id back
   finds its own request stored under it, the loser of an insert race
   too. *)
AcceptedRequest ==
  \A c \in Call :
    call[c].op = "start" /\ call[c].pc = "true" =>
      row[call[c].wf].request = call[c].request

(* A claimed workflow does not stay in dispatch for ever: a survivor's
   recovery worker takes over what a stopped process left behind. *)
Dispatched ==
  \A w \in Workflow : row[w].status \in Pending ~> Settled(w)

(* What the repository says and the engine does not do; see the README.   *)

(* "workflows survive process restarts", "Resume interrupted workflows":
   a workflow that is running reaches an end, or is running again. *)
InterruptedFinish ==
  \A w \in Workflow : row[w].status = "running" ~> row[w].status \in Ended

(* cancel_workflow treats CANCELLED as terminal ("Allowed at any
   pre-terminal state"): a cancelled workflow stays cancelled. *)
CancelIsFinal ==
  [][\A w \in Workflow : row[w].status = "cancelled"
                           => row'[w].status = "cancelled"]_vars
=============================================================================

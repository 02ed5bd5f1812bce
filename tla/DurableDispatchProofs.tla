------------------------ MODULE DurableDispatchProofs ------------------------
(***************************************************************************)
(* What DurableDispatch guarantees for every set of engines, workflows,    *)
(* calls and tasks.                                                        *)
(***************************************************************************)
EXTENDS DurableDispatch, TLAPS

-----------------------------------------------------------------------------
(* The tables and records the actions build have their types.              *)

LEMMA NoRowIsRow == NoRow \in Row
  BY DEF NoRow, Row, Status

LEMMA RowStatusType ==
  ASSUME NEW r \in Row, NEW s \in Status
  PROVE  [r EXCEPT !.status = s] \in Row
  BY DEF Row

LEMMA RowDispatchType ==
  ASSUME NEW r \in Row, NEW s \in Status, NEW o \in Engine \cup {Nil},
         NEW l \in {"none", "live", "expired"}
  PROVE  [r EXCEPT !.status = s, !.owner = o, !.lease = l] \in Row
  BY DEF Row

LEMMA AppendType ==
  ASSUME TypeOK, NEW w \in Workflow, NEW ev \in Event, Append(w, ev)
  PROVE  history' \in [Workflow -> [Event -> Nat]]
  BY DEF TypeOK, Append

LEMMA CallPcType ==
  ASSUME call \in [Call -> CallState], NEW c \in Call, NEW p \in CallPc
  PROVE  [call EXCEPT ![c].pc = p] \in [Call -> CallState]
  BY DEF CallState

LEMMA TaskPcType ==
  ASSUME task \in [Task -> TaskState], NEW t \in Task, NEW p \in TaskPc
  PROVE  [task EXCEPT ![t].pc = p] \in [Task -> TaskState]
  BY DEF TaskState

LEMMA KillCallsType ==
  ASSUME call \in [Call -> CallState], NEW e
  PROVE  KillCalls(e) \in [Call -> CallState]
<1>1. "dead" \in CallPc
  BY DEF CallPc, CallResults
<1>2. QED
  BY <1>1 DEF KillCalls, CallState

LEMMA KillTasksType ==
  ASSUME task \in [Task -> TaskState], NEW e
  PROVE  KillTasks(e) \in [Task -> TaskState]
<1>1. "dead" \in TaskPc /\ "interrupted" \in TaskPc
  BY DEF TaskPc, TaskEnds
<1>2. QED
  BY <1>1 DEF KillTasks, TaskState

(* Every control state the actions name is one of its type. *)
LEMMA CallPcs ==
  {"insert", "log_claimed", "reload", "dispatch", "handoff",
   "save_cancelled", "log_cancelled", "save_resumed", "log_resumed",
   "true", "false", "raised", "dead", "new"} \subseteq CallPc
  BY DEF CallPc, CallSteps, StartSteps, CancelSteps, ResumeSteps, CallResults

LEMMA TaskPcs ==
  {"handoff", "begin", "log_completed", "log_failed", "log_compensation",
   "save_compensated", "scheduled", "body", "compensating", "done",
   "aborted", "dead", "interrupted", "none"} \subseteq TaskPc
  BY DEF TaskPc, TaskWaits, TaskSteps, TaskEnds

LEMMA Statuses ==
  {"absent", "claimed", "dispatching", "running", "completed", "failed",
   "compensated", "cancelled"} \subseteq Status
  BY DEF Status, Pending, Ended

-----------------------------------------------------------------------------
(* Type correctness                                                        *)

(* A coroutine that has begun knows its engine and its workflow. *)
Located ==
  /\ \A c \in Call : call[c].pc # "new" =>
       call[c].eng \in Engine /\ call[c].wf \in Workflow
  /\ \A t \in Task : task[t].pc # "none" =>
       /\ task[t].eng \in Engine
       /\ task[t].wf \in Workflow
       /\ task[t].by # Nil => /\ task[t].by \in Call
                              /\ call[task[t].by].pc # "new"

Typed == TypeOK /\ Located

LEMMA ClaimDispatchType ==
  ASSUME TypeOK, NEW e \in Engine, NEW w \in Workflow, NEW t \in Task,
         NEW c \in Call \cup {Nil}, ClaimDispatch(e, w, t, c)
  PROVE  /\ row' \in [Workflow -> Row]
         /\ task' \in [Task -> TaskState]
<1>1. [row[w] EXCEPT !.status = "dispatching", !.owner = e, !.lease = "live"]
        \in Row
  BY RowDispatchType, Statuses DEF TypeOK
<1>2. [pc |-> "handoff", eng |-> e, wf |-> w, by |-> c, snap |-> NoRow]
        \in TaskState
  BY TaskPcs, NoRowIsRow DEF TaskState
<1>3. QED
  BY <1>1, <1>2 DEF ClaimDispatch, TypeOK

LEMMA CallTypeOK ==
  ASSUME Typed, NEW c \in Call, CallNext(c)
  PROVE  TypeOK'
<1> USE DEF TypeOK, Typed
<1>a. call[c].pc # "new" => call[c].eng \in Engine /\ call[c].wf \in Workflow
  BY DEF Located
<1>b. call[c].request \in Request \cup {Nil} /\ call[c].snap \in Row
  BY DEF CallState
<1>1. CASE StartInsert(c)
  <2>1. ClaimedRow(call[c].request) \in Row
    BY <1>b, Statuses, NoRowIsRow DEF ClaimedRow, Row
  <2>2. row' \in [Workflow -> Row]
    BY <1>1, <2>1 DEF StartInsert
  <2>3. QED
    BY SMTT(30), <1>1, <2>2, CallPcType, CallPcs DEF StartInsert
<1>2. CASE StartReload(c)
  BY <1>2, CallPcType, CallPcs DEF StartReload, AfterLoad
<1>3. CASE StartLogClaimed(c)
  BY <1>3, <1>a, AppendType, CallPcType, CallPcs DEF StartLogClaimed, Event
<1>4. CASE StartDispatch(c)
  <2>1. call' \in [Call -> CallState]
    BY <1>4, CallPcType, CallPcs DEF StartDispatch
  <2>2. row' \in [Workflow -> Row] /\ task' \in [Task -> TaskState]
    BY <1>4, <1>a, ClaimDispatchType DEF StartDispatch
  <2>3. QED
    BY <1>4, <2>1, <2>2 DEF StartDispatch
<1>5. CASE CancelSave(c)
  <2>1. [call[c].snap EXCEPT !.status = "cancelled", !.owner = Nil,
                             !.lease = "none"] \in Row
    BY <1>b, RowDispatchType, Statuses
  <2>2. QED
    BY <1>5, <2>1, CallPcType, CallPcs DEF CancelSave
<1>6. CASE CancelLog(c)
  BY <1>6, <1>a, AppendType, CallPcType, CallPcs DEF CancelLog, Event
<1>7. CASE ResumeSave(c)
  <2>1. [call[c].snap EXCEPT !.status = "running", !.signals = @ \cup {c}]
          \in Row
    BY <1>b, Statuses DEF Row
  <2>2. QED
    BY <1>7, <2>1, CallPcType, CallPcs DEF ResumeSave
<1>8. CASE ResumeLog(c)
  BY <1>8, <1>a, AppendType, CallPcType, CallPcs DEF ResumeLog, Event
<1>9. QED
  BY <1>1, <1>2, <1>3, <1>4, <1>5, <1>6, <1>7, <1>8
     DEF CallNext, StartNext, CancelNext, ResumeNext

LEMMA ArriveTypeOK ==
  ASSUME Typed, NEW c \in Call, NEW e \in Engine, NEW w \in Workflow,
         Arrive(c, e, w)
  PROVE  TypeOK'
<1> USE DEF TypeOK, Typed
<1>1. ASSUME NEW r \in Request, StartWorkflow(c, e, w, r)
      PROVE  TypeOK'
  <2>1. PICK p \in CallPc : call' = [call EXCEPT ![c] =
          [op |-> "start", eng |-> e, wf |-> w, request |-> r,
           snap |-> NoRow, pc |-> p]]
    BY <1>1, CallPcs DEF StartWorkflow, AfterLoad
  <2>2. call' \in [Call -> CallState]
    BY <2>1, NoRowIsRow DEF CallState
  <2>3. QED
    BY <1>1, <2>2 DEF StartWorkflow
<1>2. CASE CancelWorkflow(c, e, w)
  <2>1. PICK p \in CallPc : call' = [call EXCEPT ![c] =
          [op |-> "cancel", eng |-> e, wf |-> w, request |-> Nil,
           snap |-> row[w], pc |-> p]]
    BY <1>2, CallPcs DEF CancelWorkflow
  <2>2. call' \in [Call -> CallState]
    BY <2>1 DEF CallState
  <2>3. QED
    BY <1>2, <2>2 DEF CancelWorkflow
<1>3. CASE ResumeWorkflow(c, e, w)
  <2>1. PICK p \in CallPc : call' = [call EXCEPT ![c] =
          [op |-> "resume", eng |-> e, wf |-> w, request |-> Nil,
           snap |-> row[w], pc |-> p]]
    BY <1>3, CallPcs DEF ResumeWorkflow
  <2>2. call' \in [Call -> CallState]
    BY <2>1 DEF CallState
  <2>3. QED
    BY <1>3, <2>2 DEF ResumeWorkflow
<1>4. QED
  BY <1>1, <1>2, <1>3 DEF Arrive

LEMMA TaskTypeOK ==
  ASSUME Typed, NEW t \in Task, TaskNext(t)
  PROVE  TypeOK'
<1> USE DEF TypeOK, Typed
<1>a. task[t].pc # "none" => /\ task[t].eng \in Engine
                             /\ task[t].wf \in Workflow
                             /\ task[t].by # Nil => task[t].by \in Call
  BY DEF Located
<1>b. task[t].snap \in Row
  BY DEF TaskState
<1>c. ASSUME NEW s \in Status, SaveSnapshot(t, s)
      PROVE  row' \in [Workflow -> Row]
  BY <1>b, <1>c, RowStatusType DEF SaveSnapshot
<1>1. CASE Handoff(t)
  <2>1. call' \in [Call -> CallState]
    BY <1>1, <1>a, CallPcType, CallPcs DEF Handoff
  <2>2. history' \in [Workflow -> [Event -> Nat]]
    BY <1>1, <1>a, AppendType DEF Handoff, Event
  <2>3. QED
    BY <1>1, <2>1, <2>2, TaskPcType, TaskPcs DEF Handoff
<1>2. CASE Release(t)
  <2>1. [row[task[t].wf] EXCEPT !.status = "running", !.owner = Nil,
                                !.lease = "none"] \in Row
    BY <1>2, <1>a, RowDispatchType, Statuses DEF Release
  <2>2. row' \in [Workflow -> Row]
    BY <1>2, <2>1 DEF Release
  <2>3. QED
    BY <1>2, <2>2, TaskPcType, TaskPcs DEF Release
<1>3. CASE Begin(t)
  <2>1. [task[t] EXCEPT !.pc = "body", !.snap = row[task[t].wf]] \in TaskState
    BY <1>3, <1>a, TaskPcs DEF Begin, TaskState
  <2>2. task' \in [Task -> TaskState]
    BY <1>3, <2>1, TaskPcType, TaskPcs DEF Begin
  <2>3. QED
    BY <1>3, <1>a, <2>2, AppendType DEF Begin, Event
<1>4. CASE BodyReturns(t)
  BY <1>4, <1>c, Statuses, TaskPcType, TaskPcs DEF BodyReturns
<1>5. CASE LogCompleted(t)
  BY <1>5, <1>a, AppendType, TaskPcType, TaskPcs DEF LogCompleted, Event
<1>6. CASE BodyRaises(t)
  BY <1>6, <1>c, Statuses, TaskPcType, TaskPcs DEF BodyRaises
<1>7. CASE LogFailed(t)
  BY <1>7, <1>a, AppendType, TaskPcType, TaskPcs DEF LogFailed, Event
<1>8. CASE CompensationStarts(t)
  BY <1>8, <1>a, AppendType, TaskPcType, TaskPcs DEF CompensationStarts, Event
<1>9. CASE CompensationEnds(t)
  BY <1>9, <1>a, AppendType, TaskPcType, TaskPcs DEF CompensationEnds, Event
<1>10. CASE SaveCompensated(t)
  BY <1>10, <1>c, Statuses, TaskPcType, TaskPcs DEF SaveCompensated
<1>11. QED
  BY <1>1, <1>2, <1>3, <1>4, <1>5, <1>6, <1>7, <1>8, <1>9, <1>10
     DEF TaskNext

LEMMA EngineTypeOK ==
  ASSUME Typed, NEW e \in Engine, RecoverNext(e) \/ ProcessNext(e)
  PROVE  TypeOK'
<1> USE DEF TypeOK, Typed
<1>1. CASE RecoverFind(e)
  BY <1>1 DEF RecoverFind
<1>2. ASSUME NEW w \in Workflow, RecoverDispatch(e, w)
      PROVE  TypeOK'
  <2>1. row' \in [Workflow -> Row] /\ task' \in [Task -> TaskState]
    BY <1>2, ClaimDispatchType DEF RecoverDispatch
  <2>2. QED
    BY <1>2, <2>1 DEF RecoverDispatch
<1>3. CASE Boot(e)
  BY <1>3 DEF Boot, EngineStatus
<1>4. CASE Crash(e)
  BY <1>4, KillCallsType, KillTasksType DEF Crash, EngineStatus
<1>5. CASE Shutdown(e)
  BY <1>5 DEF Shutdown, EngineStatus
<1>6. CASE ShutdownEnds(e)
  BY <1>6, KillTasksType DEF ShutdownEnds, EngineStatus
<1>7. QED
  BY <1>1, <1>2, <1>3, <1>4, <1>5, <1>6 DEF RecoverNext, ProcessNext
LEMMA NextTypeOK == Typed /\ [Next]_vars => TypeOK'
<1> SUFFICES ASSUME Typed, [Next]_vars
             PROVE  TypeOK'
  OBVIOUS
<1>1. ASSUME NEW w \in Workflow, ExpireLease(w)
      PROVE  TypeOK'
  <2>1. stalls' \in Nat
    BY <1>1 DEF ExpireLease, Typed, TypeOK
  <2>2. row' \in [Workflow -> Row]
    BY ZenonT(60), <1>1 DEF ExpireLease, Typed, TypeOK, Row
  <2>3. QED
    BY <1>1, <2>1, <2>2 DEF ExpireLease, Typed, TypeOK
<1>2. CASE UNCHANGED vars
  BY <1>2 DEF vars, Typed, TypeOK
<1>3. QED
  BY <1>1, <1>2, ArriveTypeOK, CallTypeOK, EngineTypeOK, TaskTypeOK DEF Next

-----------------------------------------------------------------------------
(* How a step changes calls and tasks: most steps move one program counter *)

(* A step keeps the identity of a call, and what it has loaded. *)
SameCall(c) ==
  /\ call'[c].op = call[c].op
  /\ call'[c].eng = call[c].eng
  /\ call'[c].wf = call[c].wf
  /\ call'[c].request = call[c].request
  /\ call'[c].snap = call[c].snap
(* A step keeps the identity of a task. *)
SameTask(t) ==
  /\ task'[t].eng = task[t].eng
  /\ task'[t].wf = task[t].wf
  /\ task'[t].by = task[t].by

LEMMA CallPcMove ==
  ASSUME call \in [Call -> CallState], NEW c \in Call, NEW p,
         call' = [call EXCEPT ![c].pc = p]
  PROVE  \A d \in Call : /\ SameCall(d)
                         /\ call'[d].pc = IF d = c THEN p ELSE call[d].pc
  BY DEF SameCall, CallState

LEMMA TaskPcMove ==
  ASSUME task \in [Task -> TaskState], NEW t \in Task, NEW p,
         task' = [task EXCEPT ![t].pc = p]
  PROVE  \A u \in Task : /\ SameTask(u)
                         /\ task'[u].snap = task[u].snap
                         /\ task'[u].pc = IF u = t THEN p ELSE task[u].pc
  BY DEF SameTask, TaskState

LEMMA KillCallsMove ==
  ASSUME call \in [Call -> CallState], NEW e, call' = KillCalls(e)
  PROVE  \A d \in Call : /\ SameCall(d)
                         /\ call'[d].pc = IF call[d].eng = e /\ call[d].pc \in CallSteps
                                          THEN "dead" ELSE call[d].pc
  BY DEF SameCall, CallState, KillCalls

LEMMA KillTasksMove ==
  ASSUME task \in [Task -> TaskState], NEW e, task' = KillTasks(e)
  PROVE  \A u \in Task : /\ SameTask(u)
                         /\ task'[u].snap = task[u].snap
                         /\ task'[u].pc = IF task[u].eng = e /\ task[u].pc \in TaskWaits \cup TaskSteps
                                          THEN IF task[u].pc \in Running THEN "interrupted" ELSE "dead"
                                          ELSE task[u].pc
  BY DEF SameTask, TaskState, KillTasks

(* Only an arriving call gets an identity; it never loses it. *)
LEMMA CallsMove ==
  ASSUME Typed, [Next]_vars, NEW d \in Call
  PROVE  \/ /\ SameCall(d)
            /\ call'[d].pc # "new" <=> call[d].pc # "new"
         \/ \E e \in Engine, w \in Workflow :
              /\ Arrive(d, e, w)
              /\ call[d].pc = "new"
              /\ call'[d].pc # "new"
              /\ call'[d].eng = e
              /\ call'[d].wf = w
<1> USE DEF Typed, TypeOK
<1>1. ASSUME NEW c \in Call, NEW e \in Engine, NEW w \in Workflow,
             Arrive(c, e, w), c = d
      PROVE  /\ call[d].pc = "new" /\ call'[d].pc # "new"
             /\ call'[d].eng = e /\ call'[d].wf = w
  BY <1>1 DEF Arrive, StartWorkflow, AfterLoad, CancelWorkflow,
              ResumeWorkflow
<1>2. ASSUME NEW c \in Call, NEW e \in Engine, NEW w \in Workflow,
             Arrive(c, e, w), c # d
      PROVE  call'[d] = call[d]
  BY <1>2 DEF Arrive, StartWorkflow, CancelWorkflow, ResumeWorkflow
<1>3. ASSUME NEW c \in Call, CallNext(c)
      PROVE  SameCall(d) /\ (call'[d].pc # "new" <=> call[d].pc # "new")
  <2>1. /\ call[c].pc # "new"
        /\ \E p : p # "new" /\ call' = [call EXCEPT ![c].pc = p]
    BY <1>3 DEF CallNext, StartNext, StartInsert, StartReload, AfterLoad,
                StartLogClaimed, StartDispatch, CancelNext, CancelSave,
                CancelLog, ResumeNext, ResumeSave, ResumeLog
  <2>2. QED
    BY <2>1, CallPcMove
<1>4. ASSUME NEW e \in Engine, RecoverNext(e) \/ ProcessNext(e)
      PROVE  SameCall(d) /\ (call'[d].pc # "new" <=> call[d].pc # "new")
  <2>1. call' = call \/ call' = KillCalls(e)
    BY <1>4 DEF RecoverNext, RecoverFind, RecoverDispatch, ProcessNext, Boot,
                Crash, Shutdown, ShutdownEnds
  <2>2. "new" \notin CallSteps
    BY DEF CallSteps, StartSteps, CancelSteps, ResumeSteps
  <2>3. QED
    BY <2>1, <2>2, KillCallsMove DEF SameCall
<1>5. ASSUME NEW t \in Task, TaskNext(t)
      PROVE  SameCall(d) /\ (call'[d].pc # "new" <=> call[d].pc # "new")
  <2>1. CASE call' = call
    BY <2>1 DEF SameCall
  <2>2. CASE Handoff(t) /\ call' # call
    <3>1. PICK c \in Call :
            /\ call[c].pc # "new"
            /\ \E p : p # "new" /\ call' = [call EXCEPT ![c].pc = p]
      BY <2>2 DEF Handoff, Located
    <3>2. QED
      BY <3>1, CallPcMove
  <2>3. QED
    BY <1>5, <2>1, <2>2 DEF TaskNext, Release, Begin, BodyReturns,
       LogCompleted, BodyRaises, LogFailed, CompensationStarts,
       CompensationEnds, SaveCompensated
<1>6. CASE UNCHANGED vars \/ \E w \in Workflow : ExpireLease(w)
  BY <1>6 DEF vars, ExpireLease, SameCall
<1>7. QED
  BY <1>1, <1>2, <1>3, <1>4, <1>5, <1>6 DEF Next, SameCall

(* A task comes into being when its engine wins a claim, for a call that
   is dispatching or for the recovery worker, and keeps its identity. *)
LEMMA TasksMove ==
  ASSUME Typed, [Next]_vars, NEW u \in Task
  PROVE  \/ /\ SameTask(u)
            /\ task'[u].pc # "none" => task[u].pc # "none"
            /\ task'[u].pc = "handoff" => task[u].pc = "handoff"
            /\ task'[u].snap = task[u].snap \/ Begin(u)
         \/ \E e \in Engine, w \in Workflow, c \in Call \cup {Nil} :
              /\ ClaimDispatch(e, w, u, c)
              /\ task'[u].pc = "handoff"
              /\ task'[u].eng = e
              /\ task'[u].wf = w
              /\ task'[u].by = c
              /\ c # Nil => call[c].pc = "dispatch" /\ call'[c].pc = "handoff"
              /\ c # Nil => call[c].eng = e /\ call[c].wf = w
<1> USE DEF Typed, TypeOK
<1>0. ASSUME task' = task
      PROVE  /\ SameTask(u)
             /\ task'[u].pc = task[u].pc
             /\ task'[u].snap = task[u].snap
  BY <1>0 DEF SameTask
<1>1. ASSUME NEW e \in Engine, NEW w \in Workflow, NEW t \in Task,
             NEW c \in Call \cup {Nil}, ClaimDispatch(e, w, t, c)
      PROVE  IF t = u
             THEN /\ task'[u].pc = "handoff"
                  /\ task'[u].eng = e
                  /\ task'[u].wf = w
                  /\ task'[u].by = c
             ELSE task'[u] = task[u]
  BY <1>1 DEF ClaimDispatch
<1>2. ASSUME NEW c \in Call, StartDispatch(c), task' # task
      PROVE  /\ \E t \in Task : ClaimDispatch(call[c].eng, call[c].wf, t, c)
             /\ call[c].pc = "dispatch" /\ call'[c].pc = "handoff"
             /\ call[c].eng \in Engine /\ call[c].wf \in Workflow
             /\ c # Nil
  BY <1>2, CallPcMove, NilAssumption DEF StartDispatch, Located
<1>3. ASSUME NEW c \in Call, CallNext(c), task' # task
      PROVE  StartDispatch(c)
  BY <1>3 DEF CallNext, StartNext, StartInsert, StartReload, StartLogClaimed,
              CancelNext, CancelSave, CancelLog, ResumeNext, ResumeSave,
              ResumeLog
<1>4. ASSUME NEW e \in Engine, RecoverNext(e), task' # task
      PROVE  \E w \in Workflow, t \in Task : ClaimDispatch(e, w, t, Nil)
  BY <1>4 DEF RecoverNext, RecoverFind, RecoverDispatch
<1>5. ASSUME NEW e \in Engine, ProcessNext(e)
      PROVE  /\ SameTask(u)
             /\ task'[u].pc # "none" => task[u].pc # "none"
             /\ task'[u].pc = "handoff" => task[u].pc = "handoff"
             /\ task'[u].snap = task[u].snap
  <2>1. task' = task \/ task' = KillTasks(e)
    BY <1>5 DEF ProcessNext, Boot, Crash, Shutdown, ShutdownEnds
  <2>2. "none" \notin TaskWaits \cup TaskSteps
    BY DEF TaskWaits, TaskSteps
  <2>3. QED
    BY <2>1, <2>2, <1>0, KillTasksMove
<1>6. ASSUME NEW t \in Task, TaskNext(t)
      PROVE  /\ SameTask(u)
             /\ task'[u].pc # "none" => task[u].pc # "none"
             /\ task'[u].pc = "handoff" => task[u].pc = "handoff"
             /\ task'[u].snap = task[u].snap \/ Begin(u)
  <2>1. task[t].pc # "none"
    BY <1>6 DEF TaskNext, Handoff, Release, Begin, BodyReturns,
       LogCompleted, BodyRaises, LogFailed, CompensationStarts,
       CompensationEnds, SaveCompensated
  <2>2. CASE Begin(t)
    BY <2>1, <2>2 DEF Begin, SameTask, TaskState
  <2>3. CASE ~Begin(t)
    <3>1. \E p : p # "handoff" /\ task' = [task EXCEPT ![t].pc = p]
      BY <1>6, <2>3 DEF TaskNext, Handoff, Release, BodyReturns,
         LogCompleted, BodyRaises, LogFailed, CompensationStarts,
         CompensationEnds, SaveCompensated
    <3>2. QED
      BY ZenonT(60), <2>1, <3>1, TaskPcMove
  <2>4. QED
    BY <2>2, <2>3
<1>7. ASSUME UNCHANGED vars \/ (\E w \in Workflow : ExpireLease(w))
             \/ \E c \in Call, e \in Engine, w \in Workflow : Arrive(c, e, w)
      PROVE  task' = task
  BY <1>7 DEF vars, ExpireLease, Arrive, StartWorkflow, CancelWorkflow,
              ResumeWorkflow
<1>8. CASE task' = task
  BY <1>8, <1>0
<1>9. CASE \E c \in Call : CallNext(c) /\ task' # task
  <2>1. PICK c \in Call : StartDispatch(c) /\ task' # task
    BY <1>9, <1>3
  <2>2. PICK t \in Task : ClaimDispatch(call[c].eng, call[c].wf, t, c)
    BY <2>1, <1>2
  <2>3. CASE t = u
    BY <2>1, <2>2, <2>3, <1>1, <1>2
  <2>4. CASE t # u
    BY <2>1, <2>2, <2>4, <1>1, <1>2 DEF SameTask
  <2>5. QED
    BY <2>3, <2>4
<1>10. CASE \E e \in Engine : RecoverNext(e) /\ task' # task
  <2>1. PICK e \in Engine, w \in Workflow, t \in Task :
          ClaimDispatch(e, w, t, Nil)
    BY <1>10, <1>4
  <2>2. CASE t = u
    BY <2>1, <2>2, <1>1
  <2>3. CASE t # u
    BY <2>1, <2>3, <1>1 DEF SameTask
  <2>4. QED
    BY <2>2, <2>3
<1>11. QED
  BY <1>5, <1>6, <1>7, <1>8, <1>9, <1>10 DEF Next

LEMMA NextLocated == Typed /\ [Next]_vars => Located'
<1> SUFFICES ASSUME Typed, [Next]_vars
             PROVE  Located'
  OBVIOUS
<1>1. ASSUME NEW c \in Call, call'[c].pc # "new"
      PROVE  call'[c].eng \in Engine /\ call'[c].wf \in Workflow
  BY <1>1, CallsMove DEF SameCall, Typed, Located
<1>2. ASSUME NEW c \in Call, call[c].pc # "new"
      PROVE  call'[c].pc # "new"
  BY <1>2, CallsMove
<1>3. ASSUME NEW t \in Task, task'[t].pc # "none"
      PROVE  /\ task'[t].eng \in Engine
             /\ task'[t].wf \in Workflow
             /\ task'[t].by # Nil => /\ task'[t].by \in Call
                                     /\ call'[task'[t].by].pc # "new"
  <2>1. CASE SameTask(t) /\ task[t].pc # "none"
    BY <2>1, <1>2 DEF SameTask, Typed, Located
  <2>2. CASE ~(SameTask(t) /\ task[t].pc # "none")
    BY <1>3, <2>2, TasksMove
  <2>3. QED
    BY <2>1, <2>2
<1>4. QED
  BY <1>1, <1>3 DEF Located

LEMMA InitTyped == Init => Typed
<1> SUFFICES ASSUME Init
             PROVE  Typed
  OBVIOUS
<1>1. NewCall \in CallState
  BY CallPcs, NoRowIsRow DEF NewCall, CallState
<1>2. NoTask \in TaskState
  BY TaskPcs, NoRowIsRow DEF NoTask, TaskState
<1>3. TypeOK
  BY <1>1, <1>2, NoRowIsRow DEF Init, TypeOK, EngineStatus
<1>4. QED
  BY <1>3 DEF Typed, Located, Init, NewCall, NoTask

LEMMA AlwaysTyped == Spec => []Typed
<1>1. Typed /\ [Next]_vars => Typed'
  BY NextTypeOK, NextLocated DEF Typed
<1>2. QED
  BY InitTyped, <1>1, PTL DEF Spec

(* Every variable keeps its type: the rows the engines replace wholesale by
   records they loaded earlier stay rows of the table. *)
THEOREM TypeCorrect == Spec => []TypeOK
<1>1. Typed => TypeOK
  BY DEF Typed
<1>2. QED
  BY AlwaysTyped, <1>1, PTL

-----------------------------------------------------------------------------
(* How a step moves the program counters                                   *)

(* The moves of a task other than Release and Begin. *)
Moves(p, q) ==
  \/ p = q
  \/ p \notin Released /\ q \notin Released
  \/ p \in Running \ {"begin"} /\ q \in Released \ {"begin"}
  \/ p \in Running /\ q = "interrupted"

LEMMA TaskPcStep ==
  ASSUME Typed, [Next]_vars, NEW u \in Task
  PROVE  Moves(task[u].pc, task'[u].pc) \/ Release(u) \/ Begin(u)
<1> USE DEF Typed, TypeOK
<1>1. CASE task' = task
  BY <1>1 DEF Moves
<1>2. ASSUME NEW e \in Engine, NEW w \in Workflow, NEW t \in Task, NEW c,
             ClaimDispatch(e, w, t, c)
      PROVE  Moves(task[u].pc, task'[u].pc)
  <2>1. CASE t = u
    BY <1>2, <2>1 DEF ClaimDispatch, Moves, Released, Running
  <2>2. CASE t # u
    BY <1>2, <2>2 DEF ClaimDispatch, Moves
  <2>3. QED
    BY <2>1, <2>2
<1>3. ASSUME task' = [task EXCEPT ![u].pc = task'[u].pc], NEW t \in Task, t # u
      PROVE  task'[t].pc = task[t].pc
  BY <1>3
<1>4. ASSUME NEW e \in Engine, task' = KillTasks(e)
      PROVE  Moves(task[u].pc, task'[u].pc)
  BY <1>4, KillTasksMove DEF Moves, Released, TaskWaits, TaskSteps, Running
<1>5. ASSUME NEW t \in Task, TaskNext(t), t # u
      PROVE  task'[u].pc = task[u].pc
  BY <1>5 DEF TaskNext, Handoff, Release, Begin, BodyReturns,
     LogCompleted, BodyRaises, LogFailed, CompensationStarts,
     CompensationEnds, SaveCompensated
<1>6. ASSUME TaskNext(u), ~Release(u), ~Begin(u)
      PROVE  Moves(task[u].pc, task'[u].pc)
  <2>0. /\ Moves("handoff", "scheduled")
        /\ Moves("body", "log_completed") /\ Moves("log_completed", "done")
        /\ Moves("body", "log_failed") /\ Moves("body", "interrupted")
        /\ Moves("log_failed", "log_compensation")
        /\ Moves("log_compensation", "compensating")
        /\ Moves("compensating", "save_compensated")
        /\ Moves("save_compensated", "done")
    BY DEF Moves, Released, Running
  <2>1. \E p, q : /\ task[u].pc = p /\ task' = [task EXCEPT ![u].pc = q]
                  /\ Moves(p, q)
    BY <1>6, <2>0 DEF TaskNext, Handoff, BodyReturns, LogCompleted,
       BodyRaises, LogFailed, CompensationStarts, CompensationEnds,
       SaveCompensated
  <2>2. QED
    BY <2>1, TaskPcMove
<1>7. CASE \E t \in Task : TaskNext(t)
  BY <1>7, <1>5, <1>6 DEF Moves
<1>8. CASE \E e \in Engine : RecoverNext(e) \/ ProcessNext(e)
  BY <1>8, <1>1, <1>2, <1>4 DEF RecoverNext, RecoverFind, RecoverDispatch,
     ProcessNext, Boot, Crash, Shutdown, ShutdownEnds
<1>9. CASE \E c \in Call : CallNext(c)
  <2>1. PICK c \in Call : CallNext(c)
    BY <1>9
  <2>2. CASE StartDispatch(c) /\ task' # task
    BY <2>2, <1>2 DEF StartDispatch, Located
  <2>3. QED
    BY <2>1, <2>2, <1>1
       DEF CallNext, StartNext, StartInsert, StartReload, StartLogClaimed,
           StartDispatch, CancelNext, CancelSave, CancelLog, ResumeNext,
           ResumeSave, ResumeLog
<1>10. CASE UNCHANGED vars \/ (\E w \in Workflow : ExpireLease(w))
             \/ \E c \in Call, e \in Engine, w \in Workflow : Arrive(c, e, w)
  BY <1>10, <1>1 DEF vars, ExpireLease, Arrive, StartWorkflow,
                     CancelWorkflow, ResumeWorkflow
<1>11. QED
  BY <1>7, <1>8, <1>9, <1>10 DEF Next

LEMMA CallPcStep ==
  ASSUME Typed, [Next]_vars, NEW d \in Call
  PROVE  \/ call'[d].pc = call[d].pc
         \/ call'[d].pc = "dead"
         \/ CallNext(d)
         \/ /\ call'[d].pc = "true"
            /\ \E t \in Task : Handoff(t) /\ task[t].by = d /\ d # Nil
         \/ \E e \in Engine, w \in Workflow : Arrive(d, e, w)
<1> USE DEF Typed, TypeOK
<1>1. ASSUME NEW c \in Call, NEW e \in Engine, NEW w \in Workflow,
             Arrive(c, e, w), c # d
      PROVE  call'[d].pc = call[d].pc
  BY <1>1 DEF Arrive, StartWorkflow, CancelWorkflow, ResumeWorkflow
<1>2. ASSUME NEW c \in Call, CallNext(c), c # d
      PROVE  call'[d].pc = call[d].pc
  <2>1. \E p : call' = [call EXCEPT ![c].pc = p]
    BY <1>2 DEF CallNext, StartNext, StartInsert, StartReload, AfterLoad,
                StartLogClaimed, StartDispatch, CancelNext, CancelSave,
                CancelLog, ResumeNext, ResumeSave, ResumeLog
  <2>2. QED
    BY <2>1, <1>2, CallPcMove
<1>3. ASSUME NEW e \in Engine, RecoverNext(e) \/ ProcessNext(e)
      PROVE  call'[d].pc = call[d].pc \/ call'[d].pc = "dead"
  <2>1. call' = call \/ call' = KillCalls(e)
    BY <1>3 DEF RecoverNext, RecoverFind, RecoverDispatch, ProcessNext, Boot,
                Crash, Shutdown, ShutdownEnds
  <2>2. QED
    BY <2>1, KillCallsMove
<1>4. ASSUME NEW t \in Task, TaskNext(t), call'[d].pc # call[d].pc
      PROVE  /\ call'[d].pc = "true"
             /\ Handoff(t) /\ task[t].by = d /\ d # Nil
  <2>1. Handoff(t) /\ task[t].by # Nil
    BY <1>4 DEF TaskNext, Handoff, Release, Begin, BodyReturns,
       LogCompleted, BodyRaises, LogFailed, CompensationStarts,
       CompensationEnds, SaveCompensated
  <2>2. task[t].by \in Call
    BY <2>1 DEF Handoff, Located
  <2>3. call' = [call EXCEPT ![task[t].by].pc = "true"]
    BY <2>1 DEF Handoff
  <2>4. QED
    BY <2>1, <2>2, <2>3, <1>4, CallPcMove
<1>5. CASE UNCHANGED vars \/ (\E w \in Workflow : ExpireLease(w))
  BY <1>5 DEF vars, ExpireLease
<1>6. QED
  BY <1>1, <1>2, <1>3, <1>4, <1>5 DEF Next

-----------------------------------------------------------------------------
(* The workflows table: who writes a row, and what with                    *)

(* The records that a run, a cancel or a resume has loaded and will write
   back hold no dispatch lease that the row has lost, and the request the
   row still has.  This is why replacing a whole row is harmless to the
   dispatch protocol. *)
SnapshotsClean ==
  /\ \A t \in Task : task[t].pc \in Running \ {"begin"} =>
       /\ task[t].snap.owner = Nil
       /\ task[t].snap.lease = "none"
       /\ task[t].snap.request = row[task[t].wf].request
  /\ \A c \in Call : call[c].pc \in {"save_cancelled", "save_resumed"} =>
       /\ row[call[c].wf].status # "absent"
       /\ call[c].snap.request = row[call[c].wf].request
  /\ \A c \in Call : call[c].pc = "save_resumed" =>
       /\ Settled(call[c].wf)
       /\ call[c].snap.owner = Nil
       /\ call[c].snap.lease = "none"

(* A task whose release succeeded has taken its workflow out of dispatch. *)
RunsSettled ==
  \A t \in Task : task[t].pc \in Released => Settled(task[t].wf)

TableInv == Typed /\ LeaseCoherence /\ SnapshotsClean /\ RunsSettled

(* What one step may do to a row. *)
Inserted(w) ==
  /\ row[w].status = "absent"
  /\ row'[w].status = "claimed"
  /\ row'[w].owner = Nil
  /\ row'[w].lease = "none"
Claimed(w) ==
  /\ row[w].status \in Pending
  /\ row'[w].status = "dispatching"
  /\ row'[w].owner \in Engine
  /\ row'[w].lease = "live"
  /\ row'[w].request = row[w].request
  /\ \E t \in Task : /\ task'[t].pc = "handoff"
                     /\ task'[t].wf = w /\ task'[t].eng = row'[w].owner
Expired(w) ==
  /\ row[w].status = "dispatching"
  /\ row'[w].status = "dispatching"
  /\ row'[w].owner = row[w].owner
  /\ row'[w].lease = "expired"
  /\ row'[w].request = row[w].request
LeftDispatch(w) ==
  /\ row[w].status # "absent"
  /\ row'[w].status \in Ended \cup {"running"}
  /\ row'[w].owner = Nil
  /\ row'[w].lease = "none"
  /\ row'[w].request = row[w].request

LEMMA SaveSnapshotRow ==
  ASSUME TableInv, NEW t \in Task, task[t].pc \in Running \ {"begin"},
         NEW s \in Ended, SaveSnapshot(t, s), NEW w \in Workflow
  PROVE  row'[w] = row[w] \/ LeftDispatch(w)
<1> USE DEF TableInv, Typed, TypeOK
<1>1. task[t].snap \in Row /\ task[t].wf \in Workflow /\ "none" \notin Running
  BY DEF TaskState, Located, Running
<1>2. Settled(task[t].wf)
  BY DEF RunsSettled, Released
<1>3. CASE w = task[t].wf
  <2>1. row'[w] = [task[t].snap EXCEPT !.status = s]
    BY <1>1, <1>3 DEF SaveSnapshot
  <2>2. LeftDispatch(w)
    BY <1>1, <1>2, <1>3, <2>1
       DEF LeftDispatch, SnapshotsClean, Settled, Row
  <2>3. QED
    BY <2>2
<1>4. CASE w # task[t].wf
  BY <1>1, <1>4 DEF SaveSnapshot
<1>5. QED
  BY <1>3, <1>4

LEMMA ClaimDispatchRow ==
  ASSUME TableInv, NEW e \in Engine, NEW u \in Workflow, NEW t \in Task,
         NEW c, ClaimDispatch(e, u, t, c), NEW w \in Workflow
  PROVE  row'[w] = row[w] \/ Claimed(w)
<1> USE DEF TableInv, Typed, TypeOK
<1>1. CASE w = u
  <2>1. /\ row[w].status \in Pending /\ row'[w].status = "dispatching"
        /\ row'[w].owner = e /\ row'[w].lease = "live"
        /\ row'[w].request = row[w].request
    BY <1>1 DEF ClaimDispatch, Claimable, Row, Pending
  <2>2. task'[t].pc = "handoff" /\ task'[t].wf = w /\ task'[t].eng = e
    BY <1>1 DEF ClaimDispatch
  <2>3. QED
    BY <2>1, <2>2 DEF Claimed
<1>2. CASE w # u
  BY <1>2 DEF ClaimDispatch
<1>3. QED
  BY <1>1, <1>2

LEMMA RowStep ==
  ASSUME TableInv, [Next]_vars, NEW w \in Workflow
  PROVE  \/ row'[w] = row[w]
         \/ Inserted(w) \/ Claimed(w) \/ Expired(w) \/ LeftDispatch(w)
<1> USE DEF TableInv, Typed, TypeOK
<1>1. ASSUME NEW c \in Call, CallNext(c)
      PROVE  \/ row'[w] = row[w]
             \/ Inserted(w) \/ Claimed(w) \/ LeftDispatch(w)
  <2>1. call[c].pc # "new" => call[c].eng \in Engine /\ call[c].wf \in Workflow
    BY DEF Located
  <2>2. call[c].snap \in Row /\ call[c].request \in Request \cup {Nil}
    BY DEF CallState
  <2>3. CASE StartInsert(c)
    <3>1. /\ ClaimedRow(call[c].request).status = "claimed"
          /\ ClaimedRow(call[c].request).owner = Nil
          /\ ClaimedRow(call[c].request).lease = "none"
      BY DEF ClaimedRow, NoRow
    <3>2. CASE w = call[c].wf
      <4>1. CASE row[w].status = "absent" /\ row'[w] = ClaimedRow(call[c].request)
        BY <4>1, <3>1 DEF Inserted
      <4>2. CASE row' = row
        BY <4>2
      <4>3. QED
        BY <2>3, <3>2, <4>1, <4>2 DEF StartInsert
    <3>3. CASE w # call[c].wf
      BY <2>3, <3>3 DEF StartInsert
    <3>4. QED
      BY <3>2, <3>3
  <2>4. CASE StartDispatch(c)
    BY <2>1, <2>4, ClaimDispatchRow DEF StartDispatch
  <2>5. CASE CancelSave(c)
    <3>1. CASE w = call[c].wf
      BY <2>1, <2>2, <2>5, <3>1
         DEF CancelSave, LeftDispatch, SnapshotsClean, Row, Ended
    <3>2. CASE w # call[c].wf
      BY <2>1, <2>5, <3>2 DEF CancelSave
    <3>3. QED
      BY <3>1, <3>2
  <2>6. CASE ResumeSave(c)
    <3>1. CASE w = call[c].wf
      BY <2>1, <2>2, <2>6, <3>1
         DEF ResumeSave, LeftDispatch, SnapshotsClean, Row
    <3>2. CASE w # call[c].wf
      BY <2>1, <2>6, <3>2 DEF ResumeSave
    <3>3. QED
      BY <3>1, <3>2
  <2>7. CASE StartReload(c) \/ StartLogClaimed(c) \/ CancelLog(c) \/ ResumeLog(c)
    BY <2>7 DEF StartReload, StartLogClaimed, CancelLog, ResumeLog
  <2>8. QED
    BY <1>1, <2>3, <2>4, <2>5, <2>6, <2>7
       DEF CallNext, StartNext, CancelNext, ResumeNext
<1>2. ASSUME NEW e \in Engine, RecoverNext(e) \/ ProcessNext(e)
      PROVE  row'[w] = row[w] \/ Claimed(w)
  <2>1. ASSUME NEW u \in Workflow, RecoverDispatch(e, u)
        PROVE  row'[w] = row[w] \/ Claimed(w)
    BY <2>1, ClaimDispatchRow DEF RecoverDispatch
  <2>2. QED
    BY <1>2, <2>1 DEF RecoverNext, RecoverFind, ProcessNext, Boot, Crash,
                      Shutdown, ShutdownEnds
<1>3. ASSUME NEW t \in Task, TaskNext(t)
      PROVE  row'[w] = row[w] \/ LeftDispatch(w)
  <2>1. CASE Release(t)
    <3>1. task[t].wf \in Workflow
      BY <2>1 DEF Release, Located
    <3>2. CASE w = task[t].wf
      <4>1. CASE row' = row
        BY <4>1
      <4>2. CASE /\ row[w].status = "dispatching"
                 /\ row'[w] = [row[w] EXCEPT !.status = "running",
                                            !.owner = Nil, !.lease = "none"]
        BY <4>2, <3>1, <3>2 DEF LeftDispatch, Row
      <4>3. QED
        BY <2>1, <3>1, <3>2, <4>1, <4>2 DEF Release
    <3>3. CASE w # task[t].wf
      BY <2>1, <3>1, <3>3 DEF Release
    <3>4. QED
      BY <3>2, <3>3
  <2>2. CASE BodyReturns(t)
    BY <2>2, SaveSnapshotRow DEF BodyReturns, Running, Ended
  <2>3. CASE BodyRaises(t)
    BY <2>3, SaveSnapshotRow DEF BodyRaises, Running, Ended
  <2>4. CASE SaveCompensated(t)
    BY <2>4, SaveSnapshotRow DEF SaveCompensated, Running, Ended
  <2>5. QED
    BY <1>3, <2>1, <2>2, <2>3, <2>4
       DEF TaskNext, Handoff, Begin, LogCompleted, LogFailed,
           CompensationStarts, CompensationEnds
<1>4. ASSUME NEW u \in Workflow, ExpireLease(u)
      PROVE  row'[w] = row[w] \/ Expired(w)
  BY <1>4 DEF ExpireLease, Expired, Row
<1>5. CASE UNCHANGED vars \/ \E c \in Call, e \in Engine, u \in Workflow :
                               Arrive(c, e, u)
  BY <1>5 DEF vars, Arrive, StartWorkflow, CancelWorkflow, ResumeWorkflow
<1>6. QED
  BY <1>1, <1>2, <1>3, <1>4, <1>5 DEF Next

(* Consequences for every row: it never vanishes, keeps its request, and
   once out of dispatch stays out. *)
LEMMA RowStable ==
  ASSUME TableInv, [Next]_vars, NEW w \in Workflow
  PROVE  /\ row[w].status # "absent" => /\ row'[w].status # "absent"
                                        /\ row'[w].request = row[w].request
         /\ Settled(w) => Settled(w)'
  BY RowStep DEF Inserted, Claimed, Expired, LeftDispatch, Settled, Pending,
                 Ended

LEMMA LeaseStep ==
  ASSUME TableInv, [Next]_vars
  PROVE  LeaseCoherence'
<1> SUFFICES ASSUME NEW w \in Workflow
             PROVE  /\ row'[w].status = "dispatching" <=> row'[w].owner # Nil
                    /\ row'[w].status = "dispatching" <=> row'[w].lease # "none"
  BY DEF LeaseCoherence
<1>1. /\ row[w].status = "dispatching" <=> row[w].owner # Nil
      /\ row[w].status = "dispatching" <=> row[w].lease # "none"
  BY DEF TableInv, LeaseCoherence
<1>2. QED
  BY <1>1, RowStep, NilAssumption
     DEF Inserted, Claimed, Expired, LeftDispatch, Ended

LEMMA SnapshotsStep ==
  ASSUME TableInv, [Next]_vars
  PROVE  SnapshotsClean'
<1> USE DEF TableInv, Typed
<1>1. ASSUME NEW u \in Task, task'[u].pc \in Running \ {"begin"}
      PROVE  /\ task'[u].snap.owner = Nil
             /\ task'[u].snap.lease = "none"
             /\ task'[u].snap.request = row'[task'[u].wf].request
  <2>1. CASE Begin(u)
    <3>1. task[u].pc = "begin" /\ task[u].wf \in Workflow /\ row' = row
      BY <2>1 DEF Begin, Located
    <3>2. Settled(task[u].wf)
      BY <3>1 DEF RunsSettled, Released, Running
    <3>3. row[task[u].wf].owner = Nil /\ row[task[u].wf].lease = "none"
      BY <3>1, <3>2 DEF LeaseCoherence, Settled, Pending
    <3>4. CASE task'[u].pc = "interrupted"
      BY <1>1, <3>4 DEF Running
    <3>5. CASE task' = [task EXCEPT ![u] = [@ EXCEPT !.pc = "body",
                                                    !.snap = row[task[u].wf]]]
      BY <3>1, <3>3, <3>5 DEF TypeOK, TaskState
    <3>6. QED
      BY <2>1, <3>4, <3>5, TaskPcMove DEF Begin, TypeOK
  <2>2. CASE ~Begin(u)
    <3>1. task[u].pc \in Running \ {"begin"}
      <4>1. CASE Release(u)
        <5>1. \E p : p \notin Running \ {"begin"} /\ task' = [task EXCEPT ![u].pc = p]
          BY <4>1 DEF Release, Running
        <5>2. QED
          BY <5>1, <1>1, TaskPcMove DEF TypeOK
      <4>2. CASE Moves(task[u].pc, task'[u].pc)
        BY <4>2, <1>1 DEF Moves, Released, Running
      <4>3. QED
        BY <4>1, <4>2, <2>2, TaskPcStep
    <3>2. task[u].pc # "none" /\ task'[u].pc # "handoff"
      BY <3>1, <1>1 DEF Running
    <3>3. SameTask(u) /\ task'[u].snap = task[u].snap
      BY <3>2, <2>2, TasksMove
    <3>4. task[u].wf \in Workflow /\ Settled(task[u].wf)
      BY <3>1, <3>2 DEF Located, RunsSettled, Released
    <3>5. row'[task[u].wf].request = row[task[u].wf].request
      BY <3>4, RowStable DEF Settled
    <3>6. QED
      BY <3>1, <3>3, <3>5 DEF SnapshotsClean, SameTask
  <2>3. QED
    BY <2>1, <2>2
<1>2. ASSUME NEW c \in Call,
             call'[c].pc \in {"save_cancelled", "save_resumed"}
      PROVE  /\ row'[call'[c].wf].status # "absent"
             /\ call'[c].snap.request = row'[call'[c].wf].request
             /\ call'[c].pc = "save_resumed" =>
                  /\ row'[call'[c].wf].status \notin Pending \cup {"absent"}
                  /\ call'[c].snap.owner = Nil
                  /\ call'[c].snap.lease = "none"
  <2>1. CASE call'[c].pc = call[c].pc
    <3>1. SameCall(c)
      BY <1>2, <2>1, CallsMove
    <3>2. call[c].wf \in Workflow
      BY <1>2, <2>1 DEF Located
    <3>3. /\ row[call[c].wf].status # "absent"
          /\ call[c].snap.request = row[call[c].wf].request
          /\ call[c].pc = "save_resumed" =>
                  /\ Settled(call[c].wf)
                  /\ call[c].snap.owner = Nil
                  /\ call[c].snap.lease = "none"
      BY <1>2, <2>1 DEF SnapshotsClean
    <3>4. /\ row'[call[c].wf].status # "absent"
          /\ row'[call[c].wf].request = row[call[c].wf].request
          /\ Settled(call[c].wf) => row'[call[c].wf].status \notin Pending \cup {"absent"}
      BY <3>2, <3>3, RowStable DEF Settled
    <3>5. QED
      BY <2>1, <3>1, <3>3, <3>4 DEF SameCall, Settled
  <2>2. ASSUME NEW e \in Engine, NEW w \in Workflow, Arrive(c, e, w)
        PROVE  /\ row' = row
               /\ call'[c].wf = w
               /\ call'[c].snap = row[w]
               /\ row[w].status # "absent"
               /\ call'[c].pc = "save_resumed" => row[w].status = "running"
    <3>1. ~\E r \in Request : StartWorkflow(c, e, w, r)
      BY <1>2 DEF StartWorkflow, AfterLoad, TypeOK
    <3>2. QED
      BY <1>2, <2>2, <3>1 DEF Arrive, CancelWorkflow, ResumeWorkflow, TypeOK
  <2>3. CASE \E e \in Engine, w \in Workflow : Arrive(c, e, w)
    <3>1. PICK e \in Engine, w \in Workflow : Arrive(c, e, w)
      BY <2>3
    <3>2. row[w].status = "running" =>
            /\ row[w].owner = Nil
            /\ row[w].lease = "none"
            /\ row[w].status \notin Pending \cup {"absent"}
      BY DEF LeaseCoherence, Pending
    <3>3. QED
      BY <2>2, <3>1, <3>2 DEF Settled
  <2>4. ~CallNext(c)
    <3>1. ASSUME CallNext(c)
          PROVE  \E p : /\ p \notin {"save_cancelled", "save_resumed"}
                        /\ call' = [call EXCEPT ![c].pc = p]
      BY <3>1 DEF CallNext, StartNext, StartInsert, StartReload, AfterLoad,
                StartLogClaimed, StartDispatch, CancelNext, CancelSave,
                CancelLog, ResumeNext, ResumeSave, ResumeLog
    <3>2. QED
      BY <3>1, <1>2, CallPcMove DEF TypeOK
  <2>5. QED
    BY <1>2, <2>1, <2>3, <2>4, CallPcStep
<1>3. QED
  BY <1>1, <1>2 DEF SnapshotsClean, Settled

LEMMA RunsSettledStep ==
  ASSUME TableInv, [Next]_vars
  PROVE  RunsSettled'
<1> USE DEF TableInv, Typed
<1> SUFFICES ASSUME NEW u \in Task, task'[u].pc \in Released
             PROVE  row'[task'[u].wf].status \notin Pending \cup {"absent"}
  BY DEF RunsSettled, Settled
<1>1. task[u].pc # "none" /\ SameTask(u)
  BY TasksMove DEF Released, Running
<1>2. task[u].wf \in Workflow
  BY <1>1 DEF Located
<1>3. CASE task[u].pc \in Released
  <2>1. row'[task[u].wf].status \notin Pending \cup {"absent"}
    BY <1>2, <1>3, RowStable DEF RunsSettled, Settled
  <2>2. QED
    BY <1>1, <2>1 DEF SameTask
<1>4. CASE task[u].pc \notin Released /\ Release(u)
  <2>1. ASSUME row' = [row EXCEPT ![task[u].wf] = [@ EXCEPT
                         !.status = "running", !.owner = Nil, !.lease = "none"]]
        PROVE  row'[task[u].wf].status = "running"
    BY <1>2, <2>1 DEF TypeOK, Row
  <2>2. task' # [task EXCEPT ![u].pc = "aborted"]
    BY DEF TypeOK, TaskState, Released, Running
  <2>3. QED
    BY <1>1, <1>4, <2>1, <2>2 DEF Release, SameTask, Pending
<1>5. QED
  BY <1>3, <1>4, TaskPcStep DEF Moves, Begin, Released, Running

LEMMA InitTable == Init => TableInv
  BY InitTyped DEF Init, TableInv, LeaseCoherence, NoRow, SnapshotsClean,
     RunsSettled, NoTask, NewCall, Running, Released

LEMMA AlwaysTable == Spec => []TableInv
<1>1. TableInv /\ [Next]_vars => TableInv'
  BY NextTypeOK, NextLocated, LeaseStep, SnapshotsStep, RunsSettledStep
     DEF TableInv, Typed
<1>2. QED
  BY InitTable, <1>1, PTL DEF Spec

(* Only a row in dispatch has an owner and a lease, in spite of the records
   that cancel_workflow, resume_workflow and the end of a run write back:
   by then each of these records has lost its own. *)
THEOREM LeasesCoherent == Spec => []LeaseCoherence
<1>1. TableInv => LeaseCoherence
  BY DEF TableInv
<1>2. QED
  BY AlwaysTable, <1>1, PTL

(* A workflow that was released, cancelled or ended is never put back in
   line for dispatch, by any interleaving of the engines. *)
THEOREM NeverRedispatched == Spec => NoRedispatch
<1>1. TableInv /\ [Next]_vars => [\A w \in Workflow : Settled(w) => Settled(w)']_vars
  BY RowStable
<1>2. QED
  BY AlwaysTable, <1>1, PTL DEF Spec, NoRedispatch

-----------------------------------------------------------------------------
(* What a dispatch lease stands for                                        *)

LEMMA DeadStaysDead ==
  ASSUME Typed, [Next]_vars, NEW e \in Engine, engine[e] = "dead"
  PROVE  engine'[e] = "dead"
<1>1. CASE \E f \in Engine : ProcessNext(f)
  BY <1>1 DEF ProcessNext, Boot, Crash, Shutdown, ShutdownEnds, Serving,
     Typed, TypeOK
<1>2. CASE ~\E f \in Engine : ProcessNext(f)
  <2>1. ASSUME NEW c \in Call, NEW f \in Engine, NEW w \in Workflow, Arrive(c, f, w)
        PROVE  engine' = engine
    BY <2>1 DEF Arrive, StartWorkflow, CancelWorkflow, ResumeWorkflow
  <2>2. ASSUME NEW c \in Call, CallNext(c) PROVE engine' = engine
    BY <2>2 DEF CallNext, StartNext, StartInsert, StartReload,
       StartLogClaimed, StartDispatch, CancelNext, CancelSave, CancelLog,
       ResumeNext, ResumeSave, ResumeLog
  <2>3. ASSUME NEW t \in Task, TaskNext(t) PROVE engine' = engine
    BY <2>3 DEF TaskNext, Handoff, Release, Begin, BodyReturns, LogCompleted,
       BodyRaises, LogFailed, CompensationStarts, CompensationEnds,
       SaveCompensated
  <2>4. ASSUME NEW f \in Engine, RecoverNext(f) PROVE engine' = engine
    BY <2>4 DEF RecoverNext, RecoverFind, RecoverDispatch
  <2>5. ASSUME NEW w \in Workflow, ExpireLease(w) PROVE engine' = engine
    BY <2>5 DEF ExpireLease
  <2>6. CASE UNCHANGED vars
    BY <2>6 DEF vars
  <2>7. CASE Next
    <3>1. \/ \E c \in Call, f \in Engine, w \in Workflow : Arrive(c, f, w)
          \/ \E c \in Call : CallNext(c)
          \/ \E f \in Engine : RecoverNext(f)
          \/ \E t \in Task : TaskNext(t)
          \/ \E w \in Workflow : ExpireLease(w)
      BY <1>2, <2>7 DEF Next
    <3>2. QED
      BY <2>1, <2>2, <2>3, <2>4, <2>5, <3>1
  <2>8. QED
    BY <2>6, <2>7
<1>3. QED
  BY <1>1, <1>2

(* A task that has been handed a workflow waits, releases it or goes down
   with its engine. *)
LEMMA HandedTasks ==
  ASSUME Typed, [Next]_vars, NEW u \in Task,
         task[u].pc \in {"handoff", "scheduled"}
  PROVE  \/ /\ SameTask(u)
            /\ \/ task'[u].pc \in {"handoff", "scheduled"}
               \/ engine'[task[u].eng] = "dead"
         \/ Release(u)
<1> USE DEF Typed, TypeOK
<1>0. SameTask(u)
  BY TasksMove DEF ClaimDispatch
<1>1. CASE task' = task
  BY <1>0, <1>1
<1>2. CASE \E e \in Engine : ProcessNext(e)
  <2>1. PICK e \in Engine : ProcessNext(e)
    BY <1>2
  <2>2. CASE task' = KillTasks(e) /\ engine' = [engine EXCEPT ![e] = "dead"]
    <3>1. CASE task[u].eng = e
      BY <1>0, <2>2, <3>1
    <3>2. CASE task[u].eng # e
      BY <1>0, <2>2, <3>2, KillTasksMove
    <3>3. QED
      BY <3>1, <3>2
  <2>3. QED
    BY <1>1, <2>1, <2>2 DEF ProcessNext, Boot, Crash, Shutdown, ShutdownEnds
<1>3. CASE \E e \in Engine, w \in Workflow, t \in Task :
             \E c : ClaimDispatch(e, w, t, c)
  <2>1. task'[u] = task[u]
    BY <1>3 DEF ClaimDispatch
  <2>2. QED
    BY <1>0, <2>1
<1>4. CASE \E t \in Task : TaskNext(t)
  <2>1. PICK t \in Task : TaskNext(t)
    BY <1>4
  <2>2. CASE t # u
    <3>1. task'[u].pc = task[u].pc
      BY <2>1, <2>2 DEF TaskNext, Handoff, Release, Begin, BodyReturns,
         LogCompleted, BodyRaises, LogFailed, CompensationStarts,
         CompensationEnds, SaveCompensated
    <3>2. QED
      BY <1>0, <3>1
  <2>3. CASE t = u
    <3>1. Handoff(u) \/ Release(u)
      BY <2>1, <2>3 DEF TaskNext, Begin, BodyReturns, LogCompleted,
         BodyRaises, LogFailed, CompensationStarts, CompensationEnds,
         SaveCompensated
    <3>2. CASE Handoff(u)
      <4>1. task'[u].pc = "scheduled"
        BY <3>2, TaskPcMove DEF Handoff
      <4>2. QED
        BY <1>0, <4>1
    <3>3. QED
      BY <3>1, <3>2
  <2>4. QED
    BY <2>2, <2>3
<1>5. ASSUME NEW c \in Call, CallNext(c), task' # task
      PROVE  \E e \in Engine, w \in Workflow, t \in Task :
               ClaimDispatch(e, w, t, c)
  <2>1. StartDispatch(c)
    BY <1>5 DEF CallNext, StartNext, StartInsert, StartReload,
       StartLogClaimed, CancelNext, CancelSave, CancelLog, ResumeNext,
       ResumeSave, ResumeLog
  <2>2. call[c].eng \in Engine /\ call[c].wf \in Workflow
    BY <2>1 DEF StartDispatch, Located
  <2>3. QED
    BY <1>5, <2>1, <2>2 DEF StartDispatch
<1>6. ASSUME NEW e \in Engine, RecoverNext(e), task' # task
      PROVE  \E w \in Workflow, t \in Task : ClaimDispatch(e, w, t, Nil)
  BY <1>6 DEF RecoverNext, RecoverFind, RecoverDispatch
<1>7. CASE UNCHANGED vars \/ (\E w \in Workflow : ExpireLease(w))
             \/ \E c \in Call, e \in Engine, w \in Workflow : Arrive(c, e, w)
  BY <1>1, <1>7 DEF vars, ExpireLease, Arrive, StartWorkflow,
     CancelWorkflow, ResumeWorkflow
<1>8. QED
  BY <1>1, <1>2, <1>3, <1>4, <1>5, <1>6, <1>7 DEF Next

LEMMA InHandStep ==
  ASSUME TableInv, InHand, [Next]_vars
  PROVE  InHand'
<1> SUFFICES ASSUME NEW w \in Workflow, row'[w].status = "dispatching"
             PROVE  \/ engine'[row'[w].owner] = "dead"
                    \/ \E t \in Task :
                         /\ task'[t].wf = w /\ task'[t].eng = row'[w].owner
                         /\ task'[t].pc \in {"handoff", "scheduled"}
  BY DEF InHand
<1> USE DEF TableInv
<1>1. CASE Claimed(w)
  BY <1>1 DEF Claimed
<1>2. CASE row'[w].status = row[w].status /\ row'[w].owner = row[w].owner
  <2>1. row[w].owner \in Engine
    BY <1>2 DEF LeaseCoherence, Typed, TypeOK, Row
  <2>2. CASE engine[row[w].owner] = "dead"
    BY <1>2, <2>1, <2>2, DeadStaysDead
  <2>3. CASE engine[row[w].owner] # "dead"
    <3>1. PICK t \in Task : /\ task[t].wf = w /\ task[t].eng = row[w].owner
                           /\ task[t].pc \in {"handoff", "scheduled"}
      BY <1>2, <2>3 DEF InHand
    <3>2. ~Release(t)
      <4>1. ASSUME row' = [row EXCEPT ![w] = [@ EXCEPT
                             !.status = "running", !.owner = Nil, !.lease = "none"]]
            PROVE  FALSE
        BY <4>1 DEF Typed, TypeOK, Row
      <4>2. QED
        BY <1>2, <3>1, <4>1 DEF Release
    <3>3. QED
      BY <1>2, <3>1, <3>2, HandedTasks DEF SameTask
  <2>4. QED
    BY <2>2, <2>3
<1>3. QED
  BY <1>1, <1>2, RowStep DEF Inserted, Expired, LeftDispatch, Ended

(* Behind every dispatch lease there is a task of its owner that will
   release it, or the owner has stopped: neither an expired lease nor the
   tasks that lose their compare-and-swap leave a workflow in dispatch that
   nobody is about to run. *)
THEOREM DispatchesInHand == Spec => []InHand
<1>1. Init => InHand
  BY DEF Init, InHand, NoRow
<1>2. TableInv /\ InHand /\ [Next]_vars => InHand'
  BY InHandStep
<1>3. QED
  BY <1>1, <1>2, AlwaysTable, PTL DEF Spec

-----------------------------------------------------------------------------
(* A body is entered at most once                                          *)

OneRun ==
  \A t, u \in Task :
    /\ task[t].pc \in Released
    /\ task[u].pc \in Released
    /\ task[t].wf = task[u].wf
    => t = u

(* WORKFLOW_STARTED is the mark a task leaves when it passes Begin. *)
StartsMarked ==
  /\ \A w \in Workflow : history[w]["started"] # 0 =>
       /\ history[w]["started"] = 1
       /\ \E t \in Task : task[t].wf = w /\ task[t].pc \in Released \ {"begin"}
  /\ \A t \in Task : task[t].pc \in Running \ {"begin"} =>
       history[task[t].wf]["started"] = 1

RunInv == TableInv /\ OneRun /\ StartsMarked /\ OutcomeHasRun

(* A released task stays released and keeps its workflow; a task that
   passes into the released ones does so by Release or Begin. *)
LEMMA ReleasedStep ==
  ASSUME TableInv, [Next]_vars, NEW u \in Task
  PROVE  /\ task[u].pc \in Released =>
              /\ SameTask(u) /\ task'[u].pc \in Released
              /\ task[u].pc # "begin" => task'[u].pc # "begin"
         /\ task'[u].pc \in Released =>
              /\ SameTask(u)
              /\ \/ task[u].pc \in Released
                 \/ /\ Release(u) /\ task'[u].pc = "begin"
                    /\ row[task[u].wf].status = "dispatching"
         /\ task'[u].pc \in Running \ {"begin"} =>
              task[u].pc \in Running \ {"begin"} \/ Begin(u)
<1> USE DEF TableInv, Typed, TypeOK
<1>1. CASE Release(u)
  <2>1. \/ /\ task' = [task EXCEPT ![u].pc = "begin"]
           /\ row[task[u].wf].status = "dispatching"
        \/ task' = [task EXCEPT ![u].pc = "aborted"]
    BY <1>1 DEF Release
  <2>2. task[u].pc = "scheduled"
    BY <1>1 DEF Release
  <2>3. SameTask(u) /\ task'[u].pc \in {"begin", "aborted"}
    BY <2>1, TaskPcMove
  <2>4. task'[u].pc = "begin" => row[task[u].wf].status = "dispatching"
    <3>1. CASE task' = [task EXCEPT ![u].pc = "aborted"]
      BY <3>1, TaskPcMove
    <3>2. QED
      BY <2>1, <3>1
  <2>5. QED
    BY <1>1, <2>2, <2>3, <2>4 DEF Released, Running
<1>2. CASE Begin(u)
  <2>1. \E q : /\ q \in Released \ {"begin"}
               /\ task'[u].pc = q /\ SameTask(u)
    BY <1>2, TaskPcMove DEF Begin, Released, Running, SameTask, TaskState
  <2>2. task[u].pc = "begin" /\ "begin" \in Released
    BY <1>2 DEF Begin, Released, Running
  <2>3. QED
    BY <1>2, <2>1, <2>2
<1>3. CASE Moves(task[u].pc, task'[u].pc) /\ ~Begin(u)
  <2>1. ASSUME task[u].pc \in Released \/ task'[u].pc \in Released
        PROVE  /\ task[u].pc \in Released
               /\ task'[u].pc \in Released
               /\ task[u].pc # "begin" => task'[u].pc # "begin"
    BY <1>3, <2>1 DEF Moves, Released, Running
  <2>2. ASSUME task[u].pc \in Released
        PROVE  SameTask(u)
    BY ZenonT(60), <2>2, TasksMove DEF ClaimDispatch, Released, Running
  <2>3. QED
    BY <1>3, <2>1, <2>2 DEF Moves, Released, Running
<1>4. QED
  BY <1>1, <1>2, <1>3, TaskPcStep

LEMMA OneRunStep ==
  ASSUME RunInv, [Next]_vars
  PROVE  OneRun'
<1> USE DEF RunInv, TableInv
<1> SUFFICES ASSUME NEW t \in Task, NEW u \in Task,
                    task'[t].pc \in Released, task'[u].pc \in Released,
                    task'[t].wf = task'[u].wf
             PROVE  t = u
  BY DEF OneRun
<1>1. SameTask(t) /\ SameTask(u)
  BY ReleasedStep
<1>2. ASSUME NEW x \in Task, NEW y \in Task, Release(x),
             row[task[x].wf].status = "dispatching",
             task[y].pc \in Released, task[x].wf = task[y].wf
      PROVE  FALSE
  BY <1>2 DEF RunsSettled, Settled, Pending
<1>3. CASE task[t].pc \in Released /\ task[u].pc \in Released
  BY <1>1, <1>3 DEF OneRun, SameTask
<1>4. CASE task[t].pc \notin Released /\ task[u].pc \in Released
  BY ZenonT(60), <1>1, <1>2, <1>4, ReleasedStep DEF SameTask
<1>5. CASE task[u].pc \notin Released /\ task[t].pc \in Released
  BY ZenonT(60), <1>1, <1>2, <1>5, ReleasedStep DEF SameTask
<1>6. CASE task[u].pc \notin Released /\ task[t].pc \notin Released
  <2>1. Release(t) /\ Release(u) /\ task'[t].pc = "begin" /\ task'[u].pc = "begin"
    BY <1>6, ReleasedStep
  <2>2. task[u].pc = "scheduled"
    BY <2>1 DEF Release
  <2>3. \E p : task' = [task EXCEPT ![t].pc = p]
    BY <2>1 DEF Release
  <2>4. QED
    BY <2>1, <2>2, <2>3, TaskPcMove DEF Typed, TypeOK
<1>7. QED
  BY <1>3, <1>4, <1>5, <1>6

LEMMA StartedStep ==
  ASSUME TableInv, [Next]_vars, NEW w \in Workflow
  PROVE  \/ history'[w]["started"] = history[w]["started"]
         \/ \E t \in Task : /\ Begin(t) /\ task[t].wf = w
                           /\ history'[w]["started"] = history[w]["started"] + 1
<1> USE DEF TableInv, Typed, TypeOK
<1>1. ASSUME NEW u \in Workflow, NEW ev \in Event \ {"started"}, Append(u, ev)
      PROVE  history'[w]["started"] = history[w]["started"]
  BY <1>1 DEF Append, Event
<1>2. ASSUME NEW c \in Call, CallNext(c)
      PROVE  history'[w]["started"] = history[w]["started"]
  <2>1. call[c].pc # "new" => call[c].wf \in Workflow
    BY DEF Located
  <2>2. QED
    BY <1>1, <1>2, <2>1
       DEF CallNext, StartNext, StartInsert, StartReload, StartLogClaimed,
           StartDispatch, CancelNext, CancelSave, CancelLog, ResumeNext,
           ResumeSave, ResumeLog, Event
<1>3. ASSUME NEW t \in Task, TaskNext(t), ~Begin(t)
      PROVE  history'[w]["started"] = history[w]["started"]
  <2>1. task[t].pc # "none" => task[t].wf \in Workflow
    BY DEF Located
  <2>2. QED
    BY <1>1, <1>3, <2>1
       DEF TaskNext, Handoff, Release, BodyReturns, LogCompleted, BodyRaises,
           LogFailed, CompensationStarts, CompensationEnds, SaveCompensated,
           Event
<1>4. ASSUME NEW t \in Task, Begin(t)
      PROVE  \/ history'[w]["started"] = history[w]["started"]
             \/ /\ task[t].wf = w
                /\ history'[w]["started"] = history[w]["started"] + 1
  <2>1. task[t].wf \in Workflow /\ "started" \in Event
    BY <1>4 DEF Begin, Located, Event
  <2>2. Append(task[t].wf, "started")
    BY <1>4 DEF Begin
  <2>3. QED
    BY <2>1, <2>2 DEF Append
<1>5. ASSUME NEW e \in Engine, RecoverNext(e) \/ ProcessNext(e)
      PROVE  history' = history
  BY <1>5 DEF RecoverNext, RecoverFind, RecoverDispatch, ProcessNext, Boot,
              Crash, Shutdown, ShutdownEnds
<1>6. CASE UNCHANGED vars \/ (\E u \in Workflow : ExpireLease(u))
             \/ \E c \in Call, e \in Engine, u \in Workflow : Arrive(c, e, u)
  BY <1>6 DEF vars, ExpireLease, Arrive, StartWorkflow, CancelWorkflow,
              ResumeWorkflow
<1>7. QED
  BY <1>2, <1>3, <1>4, <1>5, <1>6 DEF Next

(* Begin finds its workflow without a mark: the mark's task would be
   another released one. *)
LEMMA BeginIsFirst ==
  ASSUME RunInv, NEW t \in Task, Begin(t)
  PROVE  history[task[t].wf]["started"] = 0
<1> USE DEF RunInv, TableInv, Typed
<1>1. task[t].pc = "begin" /\ task[t].wf \in Workflow /\ "begin" \in Released
  BY DEF Begin, Located, Released, Running
<1>2. QED
  BY <1>1 DEF StartsMarked, OneRun

LEMMA StartsMarkedStep ==
  ASSUME RunInv, [Next]_vars
  PROVE  StartsMarked'
<1> USE DEF RunInv, TableInv, Typed
<1>1. ASSUME NEW w \in Workflow, history'[w]["started"] # 0
      PROVE  /\ history'[w]["started"] = 1
             /\ \E t \in Task : /\ task'[t].wf = w
                               /\ task'[t].pc \in Released \ {"begin"}
  <2>1. CASE history'[w]["started"] = history[w]["started"]
    <3>1. PICK t \in Task : task[t].wf = w /\ task[t].pc \in Released \ {"begin"}
      BY <1>1, <2>1 DEF StartsMarked
    <3>2. task'[t].wf = w /\ task'[t].pc \in Released \ {"begin"}
      BY <3>1, ReleasedStep DEF SameTask
    <3>3. QED
      BY <1>1, <2>1, <3>2 DEF StartsMarked
  <2>2. ASSUME NEW t \in Task, Begin(t), task[t].wf = w,
               history'[w]["started"] = history[w]["started"] + 1
        PROVE  /\ history'[w]["started"] = 1
               /\ task'[t].wf = w /\ task'[t].pc \in Released \ {"begin"}
    <3>1. history'[w]["started"] = 1
      BY <2>2, BeginIsFirst
    <3>2. task[t].pc = "begin" /\ "begin" \in Released
      BY <2>2 DEF Begin, Released, Running
    <3>3. task'[t].pc # "begin"
      BY <2>2, <3>2, TaskPcMove DEF Begin, TypeOK, TaskState
    <3>4. QED
      BY <2>2, <3>1, <3>2, <3>3, ReleasedStep DEF SameTask
  <2>3. QED
    BY <2>1, <2>2, StartedStep
<1>2. ASSUME NEW t \in Task, task'[t].pc \in Running \ {"begin"}
      PROVE  history'[task'[t].wf]["started"] = 1
  <2>1. SameTask(t) /\ task[t].pc # "none"
    BY <1>2, ReleasedStep, TasksMove DEF Released, Running
  <2>2. task[t].wf \in Workflow
    BY <2>1 DEF Located
  <2>3. CASE Begin(t)
    <3>1. Append(task[t].wf, "started") /\ "started" \in Event
      BY <2>3 DEF Begin, Event
    <3>2. history'[task[t].wf]["started"] = history[task[t].wf]["started"] + 1
      BY <2>2, <3>1 DEF Append, TypeOK
    <3>3. QED
      BY <2>1, <2>3, <3>2, BeginIsFirst DEF SameTask
  <2>4. CASE task[t].pc \in Running \ {"begin"}
    <3>1. history[task[t].wf]["started"] = 1
      BY <2>4 DEF StartsMarked
    <3>2. ~\E u \in Task : Begin(u) /\ task[u].wf = task[t].wf
      BY <3>1, BeginIsFirst
    <3>3. QED
      BY <2>1, <2>2, <3>1, <3>2, StartedStep DEF SameTask
  <2>5. QED
    BY <1>2, <2>3, <2>4, ReleasedStep
<1>3. QED
  BY <1>1, <1>2 DEF StartsMarked

LEMMA OutcomeStep ==
  ASSUME RunInv, [Next]_vars
  PROVE  OutcomeHasRun'
<1> USE DEF RunInv, TableInv, Typed
<1> SUFFICES ASSUME NEW w \in Workflow,
                    row'[w].status \in {"completed", "failed", "compensated"}
             PROVE  history'[w]["started"] = 1
  BY DEF OutcomeHasRun
<1>1. history[w]["started"] = 1 => history'[w]["started"] = 1
  BY StartedStep, BeginIsFirst
<1>2. CASE row'[w] = row[w]
  BY <1>1, <1>2 DEF OutcomeHasRun
<1>3. ASSUME NEW t \in Task, task[t].pc \in Running \ {"begin"}, w = task[t].wf
      PROVE  history[w]["started"] = 1
  BY <1>3 DEF StartsMarked
<1>4. ASSUME NEW t \in Task, NEW s, task[t].pc \in Running \ {"begin"},
             SaveSnapshot(t, s)
      PROVE  row'[w] = row[w] \/ history[w]["started"] = 1
  BY <1>3, <1>4 DEF SaveSnapshot, TypeOK
<1>5. ASSUME NEW t \in Task, TaskNext(t)
      PROVE  row'[w] = row[w] \/ history[w]["started"] = 1
  <2>1. CASE Release(t)
    <3>1. \/ row' = row
          \/ row' = [row EXCEPT ![task[t].wf] = [@ EXCEPT
                       !.status = "running", !.owner = Nil, !.lease = "none"]]
      BY <2>1 DEF Release
    <3>2. task[t].wf \in Workflow
      BY <2>1 DEF Release, Located
    <3>3. CASE w = task[t].wf
      <4>1. row'[w] # [row[w] EXCEPT !.status = "running", !.owner = Nil,
                                     !.lease = "none"]
        BY DEF TypeOK, Row
      <4>2. QED
        BY <3>1, <3>2, <3>3, <4>1 DEF TypeOK
    <3>4. CASE w # task[t].wf
      BY <3>1, <3>4 DEF TypeOK
    <3>5. QED
      BY <3>3, <3>4
  <2>2. CASE BodyReturns(t)
    BY <2>2, <1>4 DEF BodyReturns, Running
  <2>3. CASE BodyRaises(t)
    BY <2>3, <1>4 DEF BodyRaises, Running
  <2>4. CASE SaveCompensated(t)
    BY <2>4, <1>4 DEF SaveCompensated, Running
  <2>5. QED
    BY <1>5, <2>1, <2>2, <2>3, <2>4
       DEF TaskNext, Handoff, Begin, LogCompleted, LogFailed,
           CompensationStarts, CompensationEnds
<1>6. ASSUME NEW c \in Call, CallNext(c)
      PROVE  row'[w] = row[w]
  <2>1. CASE StartDispatch(c)
    BY <2>1, ClaimDispatchRow DEF StartDispatch, Located, Claimed
  <2>2. CASE CancelSave(c)
    BY <2>2 DEF CancelSave, TypeOK, CallState, Row
  <2>3. CASE ResumeSave(c)
    BY <2>3 DEF ResumeSave, TypeOK, CallState, Row
  <2>4. CASE StartInsert(c)
    <3>1. call[c].wf \in Workflow
      BY <2>4 DEF StartInsert, Located
    <3>2. row'[w] # ClaimedRow(call[c].request)
      BY DEF ClaimedRow, NoRow
    <3>3. QED
      BY <2>4, <3>1, <3>2 DEF StartInsert, TypeOK
  <2>5. QED
    BY <1>6, <2>1, <2>2, <2>3, <2>4
       DEF CallNext, StartNext, CancelNext, ResumeNext, StartReload,
           StartLogClaimed, CancelLog, ResumeLog
<1>7. ASSUME NEW e \in Engine, RecoverNext(e) \/ ProcessNext(e)
      PROVE  row'[w] = row[w]
  BY <1>7, ClaimDispatchRow
     DEF RecoverNext, RecoverFind, RecoverDispatch, Claimed, ProcessNext,
         Boot, Crash, Shutdown, ShutdownEnds
<1>8. ASSUME NEW u \in Workflow, ExpireLease(u)
      PROVE  row'[w].status = row[w].status
  BY <1>8 DEF ExpireLease, TypeOK, Row
<1>9. CASE UNCHANGED vars \/ \E c \in Call, e \in Engine, u \in Workflow :
                               Arrive(c, e, u)
  BY <1>9, <1>2 DEF vars, Arrive, StartWorkflow, CancelWorkflow,
                    ResumeWorkflow
<1>10. QED
  BY <1>1, <1>2, <1>5, <1>6, <1>7, <1>8, <1>9 DEF Next, OutcomeHasRun

LEMMA AlwaysRun == Spec => []RunInv
<1>1. Init => RunInv
  BY InitTable DEF Init, RunInv, OneRun, StartsMarked, OutcomeHasRun, NoTask,
     NoRow, Released, Running, Event
<1>2. RunInv /\ [Next]_vars => RunInv'
  <2> SUFFICES ASSUME RunInv, [Next]_vars
               PROVE  RunInv'
    OBVIOUS
  <2>1. TableInv'
    BY NextTypeOK, NextLocated, LeaseStep, SnapshotsStep, RunsSettledStep
       DEF TableInv, Typed, RunInv
  <2>2. QED
    BY <2>1, OneRunStep, StartsMarkedStep, OutcomeStep DEF RunInv
<1>3. QED
  BY <1>1, <1>2, PTL DEF Spec

(* Who writes the row of a cancelled workflow. *)
LEMMA CancelledRow ==
  ASSUME TableInv, [Next]_vars, NEW w \in Workflow,
         QuietlyCancelled(w)
  PROVE  row'[w].status = "cancelled"
<1> USE DEF TableInv, Typed, TypeOK
<1>0. /\ row[w].status = "cancelled"
      /\ ~Claimable(w)
      /\ \A t \in Task : task[t].wf = w => task[t].pc \notin Running
      /\ \A c \in Call : call[c].wf = w => call[c].pc # "save_resumed"
  BY DEF QuietlyCancelled, Claimable
<1>1. CASE row'[w] = row[w]
  BY <1>0, <1>1
<1>2. ASSUME NEW c \in Call, CallNext(c)
      PROVE  row'[w].status = "cancelled"
  <2>1. call[c].pc # "new" => call[c].wf \in Workflow
    BY DEF Located
  <2>2. CASE StartInsert(c)
    BY <1>0, <2>1, <2>2 DEF StartInsert
  <2>3. CASE StartDispatch(c)
    <3>1. row'[w] = row[w]
      BY <1>0, <2>1, <2>3 DEF StartDispatch, ClaimDispatch
    <3>2. QED
      BY <1>0, <3>1
  <2>4. CASE CancelSave(c)
    <3>1. call[c].snap \in Row
      BY DEF CallState
    <3>2. CASE w = call[c].wf
      BY <2>1, <2>4, <3>1, <3>2 DEF CancelSave, Row
    <3>3. CASE w # call[c].wf
      BY <1>0, <2>1, <2>4, <3>3 DEF CancelSave
    <3>4. QED
      BY <3>2, <3>3
  <2>5. CASE ResumeSave(c)
    BY <1>0, <2>1, <2>5 DEF ResumeSave
  <2>6. CASE StartReload(c) \/ StartLogClaimed(c) \/ CancelLog(c) \/ ResumeLog(c)
    BY <1>0, <2>6 DEF StartReload, StartLogClaimed, CancelLog, ResumeLog
  <2>7. QED
    BY <1>2, <2>2, <2>3, <2>4, <2>5, <2>6
       DEF CallNext, StartNext, CancelNext, ResumeNext
<1>3. ASSUME NEW t \in Task, TaskNext(t)
      PROVE  row'[w].status = "cancelled"
  <2>1. task[t].pc # "none" => task[t].wf \in Workflow
    BY DEF Located
  <2>2. CASE Release(t)
    BY <1>0, <2>1, <2>2 DEF Release
  <2>3. CASE BodyReturns(t) \/ BodyRaises(t) \/ SaveCompensated(t)
    <3>1. task[t].pc \in {"body", "save_compensated"}
      BY <2>3 DEF BodyReturns, BodyRaises, SaveCompensated
    <3>2. task[t].wf # w /\ task[t].wf \in Workflow
      BY <1>0, <2>1, <3>1 DEF Running
    <3>3. QED
      BY <1>0, <2>3, <3>2 DEF BodyReturns, BodyRaises, SaveCompensated,
         SaveSnapshot
  <2>4. QED
    BY <1>0, <1>3, <2>2, <2>3 DEF TaskNext, Handoff, Begin, LogCompleted,
       LogFailed, CompensationStarts, CompensationEnds
<1>4. ASSUME NEW e \in Engine, RecoverNext(e) \/ ProcessNext(e)
      PROVE  row'[w].status = "cancelled"
  <2>1. row'[w] = row[w]
    BY <1>0, <1>4 DEF RecoverNext, RecoverFind, RecoverDispatch,
       ClaimDispatch, ProcessNext, Boot, Crash, Shutdown, ShutdownEnds
  <2>2. QED
    BY <1>0, <2>1
<1>5. ASSUME NEW u \in Workflow, ExpireLease(u)
      PROVE  row'[w].status = "cancelled"
  BY <1>0, <1>5 DEF ExpireLease
<1>6. CASE UNCHANGED vars \/ \E c \in Call, e \in Engine, u \in Workflow :
                               Arrive(c, e, u)
  BY <1>0, <1>6 DEF vars, Arrive, StartWorkflow, CancelWorkflow,
     ResumeWorkflow
<1>7. QED
  BY <1>2, <1>3, <1>4, <1>5, <1>6 DEF Next

LEMMA QuietStep ==
  ASSUME TableInv, [Next]_vars, NEW w \in Workflow,
         QuietlyCancelled(w)
  PROVE  QuietlyCancelled(w)'
<1> USE DEF TableInv
<1>0. /\ row[w].status = "cancelled"
      /\ \A t \in Task : task[t].wf = w => task[t].pc \notin Running
      /\ \A c \in Call : call[c].wf = w => call[c].pc # "save_resumed"
  BY DEF QuietlyCancelled
<1>1. ASSUME NEW t \in Task, task'[t].wf = w, task'[t].pc \in Running
      PROVE  FALSE
  <2>1. task'[t].pc \in Released /\ task'[t].pc \notin {"done", "interrupted"}
    BY <1>1 DEF Released, Running
  <2>2. /\ SameTask(t)
        /\ \/ task[t].pc \in Released
           \/ row[task[t].wf].status = "dispatching"
    BY <2>1, ReleasedStep
  <2>3. task[t].wf = w /\ task[t].pc \in {"done", "interrupted"}
    BY <1>0, <1>1, <2>2 DEF SameTask, Released
  <2>4. Moves(task[t].pc, task'[t].pc)
    BY <2>3, TaskPcStep DEF Release, Begin
  <2>5. QED
    BY <2>1, <2>3, <2>4 DEF Moves, Released, Running
<1>2. ASSUME NEW c \in Call, call'[c].wf = w, call'[c].pc = "save_resumed"
      PROVE  FALSE
  <2>1. CASE call'[c].pc = call[c].pc
    <3>1. SameCall(c)
      BY <1>2, <2>1, CallsMove DEF Typed
    <3>2. QED
      BY <1>0, <1>2, <2>1, <3>1 DEF SameCall
  <2>2. CASE \E e \in Engine, u \in Workflow : Arrive(c, e, u)
    <3>1. PICK e \in Engine, u \in Workflow : Arrive(c, e, u)
      BY <2>2
    <3>2. ~\E r \in Request : StartWorkflow(c, e, u, r)
      BY <1>2 DEF StartWorkflow, AfterLoad, Typed, TypeOK
    <3>3. call'[c].wf = u /\ row[u].status = "running"
      BY <1>2, <3>1, <3>2 DEF Arrive, CancelWorkflow, ResumeWorkflow, Typed,
         TypeOK
    <3>4. QED
      BY <1>0, <1>2, <3>3
  <2>3. CASE CallNext(c)
    <3>1. \E p : p # "save_resumed" /\ call' = [call EXCEPT ![c].pc = p]
      BY <2>3 DEF CallNext, StartNext, StartInsert, StartReload, AfterLoad,
         StartLogClaimed, StartDispatch, CancelNext, CancelSave, CancelLog,
         ResumeNext, ResumeSave, ResumeLog
    <3>2. QED
      BY <1>2, <3>1, CallPcMove DEF Typed, TypeOK
  <2>4. QED
    BY <1>2, <2>1, <2>2, <2>3, CallPcStep
<1>3. QED
  BY <1>1, <1>2, CancelledRow DEF QuietlyCancelled

(* A cancelled workflow stays cancelled and is not entered any more as soon
   as no run and no resume_workflow that began before the cancel is under
   way, however many engines, scheduled tasks, recoveries and further calls
   there are: the stale records of these two are all that can undo it. *)
THEOREM QuietCancelsHold == Spec => QuietCancelHolds
<1>1. TableInv /\ [Next]_vars =>
        [\A w \in Workflow : QuietlyCancelled(w) => QuietlyCancelled(w)']_vars
  BY QuietStep
<1>2. QED
  BY AlwaysTable, <1>1, PTL DEF Spec, QuietCancelHolds

(* The body of a workflow is entered at most once, for every number of
   engines that claim, stall, crash and recover. *)
THEOREM BodyStartsOnce == Spec => []StartsOnce
<1>1. RunInv => StartsOnce
  <2> SUFFICES ASSUME RunInv
               PROVE  StartsOnce
    OBVIOUS
  <2>1. ASSUME NEW w \in Workflow
        PROVE  history[w]["started"] <= 1
    BY DEF RunInv, StartsMarked
  <2>2. QED
    BY <2>1 DEF RunInv, OneRun, StartsOnce
<1>2. QED
  BY AlwaysRun, <1>1, PTL

(* No record of an outcome without a run: cancel_workflow and
   resume_workflow write records back, and none of them ever carries an
   outcome. *)
THEOREM OutcomesHaveRuns == Spec => []OutcomeHasRun
<1>1. RunInv => OutcomeHasRun
  BY DEF RunInv
<1>2. QED
  BY AlwaysRun, <1>1, PTL

-----------------------------------------------------------------------------
(* start_workflow is idempotent per request                                *)

(* The pcs in which start_workflow knows that the row exists, and those in
   which it knows that the row holds its own request. *)
FoundPc == {"reload", "log_claimed", "dispatch", "handoff", "true"}
OwnPc   == FoundPc \ {"reload"}

(* What a call knows of its row: that it is there, and its own where the
   program counter says so. *)
Knows(c) ==
  /\ call[c].pc \in StartSteps => call[c].op = "start"
  /\ call[c].pc \in CancelSteps => call[c].op = "cancel"
  /\ call[c].pc \in ResumeSteps => call[c].op = "resume"
  /\ call[c].op = "start" =>
       /\ call[c].pc \in FoundPc => row[call[c].wf].status # "absent"
       /\ call[c].pc \in OwnPc => row[call[c].wf].request = call[c].request

Acceptance ==
  /\ \A c \in Call : Knows(c)
  /\ \A t \in Task : task[t].pc = "handoff" /\ task[t].by # Nil =>
       /\ call[task[t].by].op = "start"
       /\ call[task[t].by].eng = task[t].eng
       /\ call[task[t].by].pc \in {"handoff", "true"}

AcceptInv == TableInv /\ Acceptance

LEMMA KnowsArrive ==
  ASSUME AcceptInv, NEW c \in Call, NEW e \in Engine, NEW w \in Workflow,
         Arrive(c, e, w)
  PROVE  Knows(c)'
<1> USE DEF AcceptInv, TableInv, Typed, TypeOK, Knows, FoundPc, OwnPc,
        StartSteps, CancelSteps, ResumeSteps
<1>1. ASSUME NEW r \in Request, StartWorkflow(c, e, w, r)
      PROVE  Knows(c)'
  BY <1>1 DEF StartWorkflow, AfterLoad
<1>2. CASE CancelWorkflow(c, e, w)
  BY <1>2 DEF CancelWorkflow
<1>3. CASE ResumeWorkflow(c, e, w)
  BY <1>3 DEF ResumeWorkflow
<1>4. QED
  BY <1>1, <1>2, <1>3 DEF Arrive

LEMMA KnowsCall ==
  ASSUME AcceptInv, [Next]_vars, NEW c \in Call, CallNext(c)
  PROVE  Knows(c)'
<1> USE DEF AcceptInv, TableInv, Typed, TypeOK
<1>0. Knows(c)
  BY DEF Acceptance
<1>1. call[c].pc # "new" => call[c].wf \in Workflow
  BY DEF Located
<1>2. ASSUME NEW p, call' = [call EXCEPT ![c].pc = p]
      PROVE  SameCall(c) /\ call'[c].pc = p
  BY <1>2, CallPcMove
<1>3. ASSUME call[c].op = "start", call[c].pc # "new"
      PROVE  row[call[c].wf].status # "absent" =>
                /\ row'[call[c].wf].status # "absent"
                /\ row'[call[c].wf].request = row[call[c].wf].request
  BY <1>1, <1>3, RowStable
<1> USE DEF Knows, FoundPc, OwnPc, SameCall, StartSteps, CancelSteps,
        ResumeSteps
<1>4. CASE StartInsert(c)
  <2>1. row'[call[c].wf].status # "absent"
    <3>1. ClaimedRow(call[c].request).status = "claimed"
      BY DEF ClaimedRow, NoRow
    <3>2. QED
      BY <1>1, <1>4, <3>1 DEF StartInsert
  <2>2. call'[c].pc = "log_claimed" =>
          row'[call[c].wf].request = call[c].request
    BY ZenonT(60), <1>1, <1>2, <1>4 DEF StartInsert, ClaimedRow, NoRow
  <2>3. QED
    <3>1. call[c].op = "start"
      BY <1>0, <1>4 DEF StartInsert
    <3>2. \E p \in {"log_claimed", "reload"} : call' = [call EXCEPT ![c].pc = p]
      BY <1>4 DEF StartInsert
    <3>3. SameCall(c) /\ call'[c].pc \in {"log_claimed", "reload"}
      BY <1>2, <3>2
    <3>4. QED
      BY <2>1, <2>2, <3>1, <3>3
<1>5. CASE StartReload(c)
  <2>1. row' = row /\ call[c].op = "start" /\ row[call[c].wf].status # "absent"
    BY <1>0, <1>5 DEF StartReload
  <2>2. \/ call' = [call EXCEPT ![c].pc = "raised"]
        \/ /\ \E p \in {"dispatch", "true"} : call' = [call EXCEPT ![c].pc = p]
           /\ row[call[c].wf].request = call[c].request
    BY <1>5 DEF StartReload, AfterLoad
  <2>3. QED
    BY ZenonT(60), <1>2, <2>1, <2>2
<1>6. CASE StartLogClaimed(c)
  BY <1>0, <1>2, <1>6 DEF StartLogClaimed
<1>7. CASE StartDispatch(c)
  <2>1. /\ call[c].op = "start"
        /\ row[call[c].wf].status # "absent"
        /\ row[call[c].wf].request = call[c].request
    BY <1>0, <1>7 DEF StartDispatch
  <2>2. SameCall(c) /\ call'[c].pc \in {"handoff", "true"}
    BY <1>2, <1>7 DEF StartDispatch
  <2>3. QED
    BY <1>3, <1>7, <2>1, <2>2 DEF StartDispatch
<1>8. CASE CancelSave(c) \/ CancelLog(c) \/ ResumeSave(c) \/ ResumeLog(c)
  <2>1. /\ call[c].op # "start"
        /\ call[c].pc = "save_cancelled" => call[c].op = "cancel"
        /\ call[c].pc = "save_resumed" => call[c].op = "resume"
    BY <1>0, <1>8 DEF CancelSave, CancelLog, ResumeSave, ResumeLog
  <2>2. \E p : /\ call' = [call EXCEPT ![c].pc = p]
               /\ \/ p = "log_cancelled" /\ call[c].pc = "save_cancelled"
                  \/ p = "log_resumed" /\ call[c].pc = "save_resumed"
                  \/ p = "true"
    BY <1>8 DEF CancelSave, CancelLog, ResumeSave, ResumeLog
  <2>3. QED
    BY <1>2, <2>1, <2>2
<1>9. QED
  BY <1>4, <1>5, <1>6, <1>7, <1>8 DEF CallNext, StartNext, CancelNext, ResumeNext

LEMMA KnowsStep ==
  ASSUME AcceptInv, [Next]_vars, NEW c \in Call
  PROVE  Knows(c)'
<1> USE DEF AcceptInv, TableInv, Typed
<1>1. CASE \E e \in Engine, w \in Workflow : Arrive(c, e, w)
  BY <1>1, KnowsArrive
<1>2. CASE CallNext(c)
  BY <1>2, KnowsCall
<1>3. CASE call'[c].pc = "dead"
  BY <1>3 DEF Knows, StartSteps, CancelSteps, ResumeSteps, FoundPc, OwnPc
<1>4. CASE call[c].pc = "new" /\ call'[c].pc = "new"
  BY <1>4 DEF Knows, StartSteps, CancelSteps, ResumeSteps, FoundPc, OwnPc
<1>5. ASSUME call[c].pc # "new", SameCall(c), call[c].op = "start",
             row[call[c].wf].status # "absent"
      PROVE  /\ row'[call'[c].wf].status # "absent"
             /\ row'[call'[c].wf].request = row[call[c].wf].request
  <2>1. call[c].wf \in Workflow
    BY <1>5 DEF Located
  <2>2. QED
    BY <1>5, <2>1, RowStable DEF SameCall
<1>6. CASE call'[c].pc = call[c].pc /\ call[c].pc # "new"
  <2>1. SameCall(c)
    BY <1>6, CallsMove
  <2>2. QED
    <3>1. Knows(c)
      BY DEF Acceptance
    <3>2. call'[c].op = "start" /\ call'[c].pc \in FoundPc =>
            row[call[c].wf].status # "absent"
      BY <1>6, <2>1, <3>1 DEF Knows, SameCall
    <3>3. QED
      BY <1>5, <1>6, <2>1, <3>1, <3>2 DEF Knows, SameCall, FoundPc, OwnPc
<1>7. ASSUME NEW t \in Task, Handoff(t), task[t].by = c, c # Nil,
             call'[c].pc = "true"
      PROVE  Knows(c)'
  <2>1. /\ call[c].op = "start"
        /\ call[c].pc \in {"handoff", "true"}
    BY <1>7 DEF Handoff, Acceptance
  <2>2. SameCall(c)
    BY <1>7, <2>1, CallsMove DEF Arrive, StartWorkflow, CancelWorkflow,
                                 ResumeWorkflow
  <2>3. /\ row[call[c].wf].status # "absent"
        /\ row[call[c].wf].request = call[c].request
    BY <2>1 DEF Acceptance, Knows, FoundPc, OwnPc
  <2>4. QED
    BY <1>5, <1>7, <2>1, <2>2, <2>3
       DEF Knows, SameCall, StartSteps, CancelSteps, ResumeSteps
<1>8. QED
  BY <1>1, <1>2, <1>3, <1>4, <1>6, <1>7, CallPcStep

(* The call that waits for a handoff waits until the task makes it. *)
LEMMA HandoffStep ==
  ASSUME AcceptInv, [Next]_vars, NEW t \in Task,
         task'[t].pc = "handoff", task'[t].by # Nil
  PROVE  /\ call'[task'[t].by].op = "start"
         /\ call'[task'[t].by].eng = task'[t].eng
         /\ call'[task'[t].by].pc \in {"handoff", "true"}
<1> USE DEF AcceptInv, TableInv, Typed
<1>1. CASE \E e \in Engine, w \in Workflow, c \in Call \cup {Nil} :
              /\ task'[t].by = c
              /\ task'[t].eng = e
              /\ c # Nil => call[c].pc = "dispatch" /\ call'[c].pc = "handoff"
              /\ c # Nil => call[c].eng = e /\ call[c].wf = w
  <2>1. PICK c \in Call : /\ task'[t].by = c
                          /\ task'[t].eng = call[c].eng
                          /\ call[c].pc = "dispatch" /\ call'[c].pc = "handoff"
    BY <1>1
  <2>2. SameCall(c)
    BY <2>1, CallsMove
  <2>3. call[c].op = "start"
    BY <2>1 DEF Acceptance, Knows, StartSteps
  <2>4. QED
    BY <2>1, <2>2, <2>3 DEF SameCall
<1>2. CASE SameTask(t) /\ task[t].pc = "handoff"
  <2> DEFINE c == task[t].by
  <2>1. /\ c \in Call
        /\ call[c].op = "start"
        /\ call[c].eng = task[t].eng
        /\ call[c].pc \in {"handoff", "true"}
    BY <1>2 DEF SameTask, Located, Acceptance
  <2> HIDE DEF c
  <2>2. SameCall(c)
    BY <2>1, CallsMove
  <2>3. call'[c].pc \in {"handoff", "true"}
    <3>1. CASE call'[c].pc = "dead" /\ call[c].pc # "dead"
      <4>1. \A e \in Engine : call' = KillCalls(e) =>
                 call[c].eng = e /\ call[c].pc \in CallSteps
        BY <2>1, <3>1, KillCallsMove DEF TypeOK
      <4>2. ~(\E e \in Engine : Crash(e))
        <5>1. ASSUME NEW e \in Engine, Crash(e)
              PROVE  FALSE
          <6>1. call[c].eng = e
            BY <4>1, <5>1 DEF Crash
          <6>2. task'[t].pc = "dead"
            BY <1>2, <2>1, <5>1, <6>1, KillTasksMove
               DEF Crash, TypeOK, TaskSteps, Running
          <6>3. QED
            BY <6>2
        <5>2. QED
          BY <5>1
      <4>3. ASSUME NEW d \in Call, NEW e \in Engine, NEW w \in Workflow,
                   Arrive(d, e, w)
            PROVE  call'[c].pc # "dead"
        BY <2>1, <4>3 DEF Arrive, StartWorkflow, CancelWorkflow,
           ResumeWorkflow, TypeOK
      <4>4. ASSUME NEW d \in Call, CallNext(d)
            PROVE  call'[c].pc # "dead"
        <5>1. \E p : p # "dead" /\ call' = [call EXCEPT ![d].pc = p]
          BY <4>4 DEF CallNext, StartNext, StartInsert, StartReload, AfterLoad,
                StartLogClaimed, StartDispatch, CancelNext, CancelSave,
                CancelLog, ResumeNext, ResumeSave, ResumeLog
        <5>2. QED
          BY <2>1, <5>1, CallPcMove DEF TypeOK
      <4>5. ASSUME NEW u \in Task, TaskNext(u)
            PROVE  call'[c].pc # "dead"
        <5>1. call' = call \/ call' = [call EXCEPT ![task[u].by].pc = "true"]
          BY <4>5 DEF TaskNext, Handoff, Release, Begin, BodyReturns,
             LogCompleted, BodyRaises, LogFailed, CompensationStarts,
             CompensationEnds, SaveCompensated
        <5>2. QED
          BY <2>1, <5>1 DEF TypeOK, CallState
      <4>6. QED
        BY <3>1, <4>2, <4>3, <4>4, <4>5
           DEF Next, RecoverNext, RecoverFind, RecoverDispatch, ProcessNext,
               Boot, Shutdown, ShutdownEnds, ExpireLease, vars
    <3>2. ~CallNext(c)
      BY <2>1 DEF CallNext, StartNext, StartInsert, StartReload,
                StartLogClaimed, StartDispatch, CancelNext, CancelSave,
                CancelLog, ResumeNext, ResumeSave, ResumeLog
    <3>3. ~\E e \in Engine, w \in Workflow : Arrive(c, e, w)
      BY <2>1 DEF Arrive, StartWorkflow, CancelWorkflow, ResumeWorkflow
    <3>4. QED
      BY <2>1, <3>1, <3>2, <3>3, CallPcStep
  <2>4. task'[t].by = c /\ task'[t].eng = task[t].eng
    BY <1>2 DEF SameTask, c
  <2>5. QED
    BY <2>1, <2>2, <2>3, <2>4 DEF SameCall
<1>3. QED
  BY <1>1, <1>2, TasksMove

LEMMA AlwaysAccept == Spec => []AcceptInv
<1>1. Init => AcceptInv
  BY InitTable DEF Init, AcceptInv, Acceptance, Knows, NewCall, NoTask,
     StartSteps, CancelSteps, ResumeSteps, FoundPc, OwnPc
<1>2. AcceptInv /\ [Next]_vars => AcceptInv'
  <2> SUFFICES ASSUME AcceptInv, [Next]_vars
               PROVE  AcceptInv'
    OBVIOUS
  <2>1. TableInv'
    BY NextTypeOK, NextLocated, LeaseStep, SnapshotsStep, RunsSettledStep
       DEF TableInv, Typed, AcceptInv
  <2>2. Acceptance'
    BY KnowsStep, HandoffStep DEF Acceptance
  <2>3. QED
    BY <2>1, <2>2 DEF AcceptInv
<1>3. QED
  BY <1>1, <1>2, PTL DEF Spec

(* A caller that got a workflow id back finds its own request stored under
   it, whichever calls raced for the INSERT. *)
THEOREM RequestsAccepted == Spec => []AcceptedRequest
<1>1. AcceptInv => AcceptedRequest
  BY DEF AcceptInv, Acceptance, Knows, FoundPc, OwnPc, AcceptedRequest
<1>2. QED
  BY AlwaysAccept, <1>1, PTL

-----------------------------------------------------------------------------
(* The engine keeps the promise of WorkflowLifecycle                       *)

(* Every statement writes at most one row. *)
LEMMA OneRowStep ==
  ASSUME Typed, [Next]_vars
  PROVE  \/ row' = row
         \/ \E w \in Workflow : \E r : row' = [row EXCEPT ![w] = r]
<1> USE DEF Typed
<1>1. ASSUME NEW c \in Call, CallNext(c)
      PROVE  row' = row \/ \E w \in Workflow : \E r : row' = [row EXCEPT ![w] = r]
  <2>1. call[c].pc # "new" => call[c].wf \in Workflow
    BY DEF Located
  <2>2. QED
    BY <1>1, <2>1
       DEF CallNext, StartNext, StartInsert, StartReload, StartLogClaimed,
           StartDispatch, ClaimDispatch, CancelNext, CancelSave, CancelLog,
           ResumeNext, ResumeSave, ResumeLog
<1>2. ASSUME NEW t \in Task, TaskNext(t)
      PROVE  row' = row \/ \E w \in Workflow : \E r : row' = [row EXCEPT ![w] = r]
  <2>1. task[t].pc # "none" => task[t].wf \in Workflow
    BY DEF Located
  <2>2. QED
    BY <1>2, <2>1
       DEF TaskNext, Handoff, Release, Begin, BodyReturns, LogCompleted,
           BodyRaises, LogFailed, CompensationStarts, CompensationEnds,
           SaveCompensated, SaveSnapshot
<1>3. ASSUME NEW e \in Engine, RecoverNext(e) \/ ProcessNext(e)
      PROVE  row' = row \/ \E w \in Workflow : \E r : row' = [row EXCEPT ![w] = r]
  BY <1>3 DEF RecoverNext, RecoverFind, RecoverDispatch, ClaimDispatch,
              ProcessNext, Boot, Crash, Shutdown, ShutdownEnds
<1>4. ASSUME NEW u \in Workflow, ExpireLease(u)
      PROVE  row' = row \/ \E w \in Workflow : \E r : row' = [row EXCEPT ![w] = r]
  <2>1. row' = [row EXCEPT ![u].lease = "expired"]
    BY <1>4 DEF ExpireLease
  <2>2. row' = [row EXCEPT ![u] = [row[u] EXCEPT !.lease = "expired"]]
    BY <2>1 DEF TypeOK
  <2>3. QED
    BY <2>2
<1>5. CASE UNCHANGED vars \/ \E c \in Call, e \in Engine, u \in Workflow :
                               Arrive(c, e, u)
  BY <1>5 DEF vars, Arrive, StartWorkflow, CancelWorkflow, ResumeWorkflow
<1>6. QED
  BY <1>1, <1>2, <1>3, <1>4, <1>5 DEF Next

LEMMA StartedInLog ==
  ASSUME RunInv, [Next]_vars, ~\E t \in Task : Begin(t)
  PROVE  Entered' = Entered
<1>1. \A w \in Workflow : history'[w]["started"] = history[w]["started"]
  BY StartedStep DEF RunInv
<1>2. QED
  BY <1>1 DEF Entered

LEMMA GrantedKept ==
  ASSUME TableInv, [Next]_vars,
         ~\E t \in Task : Release(t) /\ task'[t].pc = "begin"
  PROVE  Granted' = Granted
<1>1. ASSUME NEW t \in Task
      PROVE  /\ task'[t].pc \in Released <=> task[t].pc \in Released
             /\ task[t].pc \in Released => task'[t].wf = task[t].wf
  BY ReleasedStep DEF SameTask
<1>2. QED
  BY <1>1 DEF Granted

(* Release is the moment of the grant. *)
LEMMA ReleaseGrants ==
  ASSUME RunInv, [Next]_vars, NEW t \in Task, Release(t),
         task'[t].pc = "begin"
  PROVE  Lifecycle!Grant(task[t].wf) /\ task[t].wf \in Workflow
<1> USE DEF RunInv, TableInv, Typed
<1> DEFINE w == task[t].wf
<1>1. /\ w \in Workflow
      /\ task[t].pc = "scheduled"
  BY DEF Release, Located
<1>2. /\ row[w].status = "dispatching"
      /\ row' = [row EXCEPT ![w] = [@ EXCEPT !.status = "running",
                                             !.owner = Nil, !.lease = "none"]]
      /\ task' = [task EXCEPT ![t].pc = "begin"]
  <2>1. task' # [task EXCEPT ![t].pc = "aborted"]
    BY DEF TypeOK, TaskState
  <2>2. QED
    BY <2>1 DEF Release
<1>3. \A v \in Workflow : row'[v].status = IF v = w THEN "running"
                                           ELSE row[v].status
  BY <1>1, <1>2 DEF TypeOK, Row
<1>4. Phase[w] = "accepted"
  BY <1>1, <1>2 DEF Phase, Settled, Pending
<1>5. Phase' = [Phase EXCEPT ![w] = "decided"]
  BY <1>1, <1>3 DEF Phase, Settled, Pending
<1>6. Granted' = Granted \cup {w}
  <2>1. \A u \in Task : /\ task'[u].wf = task[u].wf
                        /\ task'[u].pc = IF u = t THEN "begin" ELSE task[u].pc
    BY <1>2, TaskPcMove DEF SameTask, TypeOK
  <2>2. "begin" \in Released
    BY DEF Released, Running
  <2>3. task[t].pc \notin Released
    BY <1>1 DEF Released, Running
  <2>4. QED
    BY <1>1, <2>1, <2>2, <2>3 DEF Granted
<1>7. Entered' = Entered
  <2>1. ~\E u \in Task : Begin(u)
    <3>1. history' = history
      BY DEF Release
    <3>2. ASSUME NEW u \in Task, Begin(u)
          PROVE  FALSE
      <4>1. u # t /\ task'[u].pc # "begin" /\ task[u].pc = "begin"
        BY <3>2, <1>1, TaskPcMove DEF Begin, TypeOK, TaskState
      <4>2. QED
        BY <1>2, <4>1 DEF TypeOK
    <3>3. QED
      BY <3>2
  <2>2. QED
    BY <2>1, StartedInLog
<1>8. QED
  BY <1>1, <1>4, <1>5, <1>6, <1>7 DEF Lifecycle!Grant

(* Begin is the moment of the entry. *)
LEMMA BeginEnters ==
  ASSUME RunInv, [Next]_vars, NEW t \in Task, Begin(t)
  PROVE  Lifecycle!Enter(task[t].wf) /\ task[t].wf \in Workflow
<1> USE DEF RunInv, TableInv, Typed
<1> DEFINE w == task[t].wf
<1>1. /\ w \in Workflow
      /\ task[t].pc = "begin"
      /\ row' = row
  BY DEF Begin, Located
<1>2. w \in Granted
  BY <1>1 DEF Granted, Released, Running
<1>3. Entered[w] = 0
  BY <1>1, BeginIsFirst DEF Entered
<1>4. Entered' = [Entered EXCEPT ![w] = 1]
  <2>1. Append(w, "started") /\ "started" \in Event
    BY DEF Begin, Event
  <2>2. \A v \in Workflow : history'[v]["started"] =
          IF v = w THEN history[w]["started"] + 1 ELSE history[v]["started"]
    BY <1>1, <2>1 DEF Append, TypeOK
  <2>3. history[w]["started"] = 0
    BY BeginIsFirst
  <2>4. \A v \in Workflow : history'[v]["started"] =
          IF v = w THEN 1 ELSE history[v]["started"]
    BY <2>2, <2>3
  <2> HIDE DEF w
  <2>5. QED
    BY <1>1, <2>4 DEF Entered
<1>5. Phase' = Phase
  BY <1>1 DEF Phase, Settled
<1>6. Granted' = Granted
  <2>1. ~\E u \in Task : Release(u) /\ task'[u].pc = "begin"
    <3>1. task'[t].pc # "begin"
      BY <1>1, TaskPcMove DEF Begin, TypeOK, TaskState
    <3>2. ASSUME NEW u \in Task, Release(u), task'[u].pc = "begin"
          PROVE  FALSE
      <4>1. u # t
        BY <3>1, <3>2
      <4>2. task[t].pc = task'[t].pc
        BY <3>2, <4>1, TaskPcMove DEF Release, TypeOK
      <4>3. QED
        BY <1>1, <3>1, <4>2
    <3>3. QED
      BY <3>2
  <2>2. QED
    BY <2>1, GrantedKept
<1>7. QED
  BY <1>1, <1>2, <1>3, <1>4, <1>5, <1>6 DEF Lifecycle!Enter

(* Every other step accepts or withdraws one workflow or is invisible. *)
LEMMA RestOfLifecycle ==
  ASSUME RunInv, [Next]_vars,
         ~\E t \in Task : Release(t) /\ task'[t].pc = "begin",
         ~\E t \in Task : Begin(t)
  PROVE  \/ UNCHANGED <<Phase, Granted, Entered>>
         \/ \E w \in Workflow : Lifecycle!Accept(w) \/ Lifecycle!Withdraw(w)
<1> USE DEF RunInv, TableInv, Typed
<1>1. Granted' = Granted /\ Entered' = Entered
  BY GrantedKept, StartedInLog
<1>2. CASE row' = row
  BY <1>1, <1>2 DEF Phase, Settled
<1>3. ASSUME NEW w \in Workflow, NEW r, row' = [row EXCEPT ![w] = r]
      PROVE  \/ Phase' = Phase
             \/ /\ Phase[w] = "unknown"
                /\ Phase' = [Phase EXCEPT ![w] = "accepted"]
             \/ /\ Phase[w] = "accepted"
                /\ Phase' = [Phase EXCEPT ![w] = "decided"]
  <2>1. \A v \in Workflow \ {w} : row'[v] = row[v]
    BY <1>3 DEF TypeOK
  <2>2. ASSUME NEW p, p = (IF row'[w].status = "absent" THEN "unknown"
                          ELSE IF row'[w].status \notin Pending \cup {"absent"}
                               THEN "decided" ELSE "accepted")
        PROVE  Phase' = [Phase EXCEPT ![w] = p]
    BY <2>1, <2>2 DEF Phase, Settled
  <2>3. CASE row'[w] = row[w]
    BY <2>1, <2>3 DEF Phase, Settled
  <2>4. CASE Inserted(w)
    BY <2>2, <2>4 DEF Inserted, Phase, Pending
  <2>5. CASE Claimed(w) \/ Expired(w)
    <3>1. row[w].status \in Pending /\ row'[w].status \in Pending
      BY <2>5 DEF Claimed, Expired, Pending
    <3>2. QED
      BY <2>1, <3>1 DEF Phase, Settled, Pending
  <2>6. CASE LeftDispatch(w)
    <3>1. /\ row[w].status # "absent"
          /\ row'[w].status \notin Pending \cup {"absent"}
      BY <2>6 DEF LeftDispatch, Pending, Ended
    <3>2. CASE row[w].status \in Pending
      BY <2>2, <3>1, <3>2 DEF Phase, Settled
    <3>3. CASE row[w].status \notin Pending
      BY <2>1, <3>1, <3>3 DEF Phase, Settled
    <3>4. QED
      BY <3>2, <3>3
  <2>7. QED
    BY <2>3, <2>4, <2>5, <2>6, RowStep
<1>4. QED
  BY <1>1, <1>2, <1>3, OneRowStep DEF Lifecycle!Accept, Lifecycle!Withdraw

(* The engine implements WorkflowLifecycle: whatever the engines do, a
   client sees an accepted workflow decided once, and entered at most once
   and only if it was granted. *)
THEOREM EngineKeepsPromise == Spec => KeepsPromise
<1>1. Init => Lifecycle!LifecycleInit
  BY DEF Init, Lifecycle!LifecycleInit, Phase, Granted, Entered, NoRow,
         NoTask, Released, Running, Event
<1>2. RunInv /\ [Next]_vars
        => [Lifecycle!LifecycleNext]_(Lifecycle!lifecycleVars)
  <2> SUFFICES ASSUME RunInv, [Next]_vars
               PROVE  \/ Lifecycle!LifecycleNext
                      \/ UNCHANGED <<Phase, Granted, Entered>>
    BY DEF Lifecycle!lifecycleVars
  <2>1. CASE \E t \in Task : Release(t) /\ task'[t].pc = "begin"
    BY <2>1, ReleaseGrants DEF Lifecycle!LifecycleNext
  <2>2. CASE \E t \in Task : Begin(t)
    BY <2>2, BeginEnters DEF Lifecycle!LifecycleNext
  <2>3. CASE /\ ~\E t \in Task : Release(t) /\ task'[t].pc = "begin"
             /\ ~\E t \in Task : Begin(t)
    BY <2>3, RestOfLifecycle DEF Lifecycle!LifecycleNext
  <2>4. QED
    BY <2>1, <2>2, <2>3
<1>3. QED
  BY AlwaysRun, <1>1, <1>2, PTL DEF Spec, KeepsPromise,
     Lifecycle!LifecycleSpec
=============================================================================
